---- MODULE Spec2Model ----
(***************************************************************************)
(* A model of linera-core's ValueCache (src/linera-core/src/value_cache.rs) *)
(* a least-recently-used cache of values guarded by one Mutex.             *)
(*                                                                         *)
(* The cache is the lru crate's LruCache: a capacity and a list of         *)
(* (key, value) entries kept in recency order.  The list is written here   *)
(* most recently used first, which is the order LruCache::iter yields.     *)
(***************************************************************************)
EXTENDS Integers, Sequences, FiniteSets, TLC

\* The capacity the cache is built with.  The code builds every cache with
\* DEFAULT_VALUE_CACHE_SIZE = 10_000 (value_cache.rs:18, :59); the model
\* scales that down to a size TLC can fill and overflow.
CacheSize == 2

\* The longest list of keys, items or values handed to a bulk operation.
MaxBatch == 2

\* Keys (CryptoHash, BlobId) and values.
Keys == {"a", "b", "c", "d"}
Values == {1, 2}

\* Hashed<T>::hash / Blob::id: the key a content-addressed value carries.
\* Distinct values have distinct keys.
hash(value) == <<"a", "b">>[value]

\* Lists of at most n elements of S.
SeqsUpTo(S, n) == UNION {[1..m -> S] : m \in 0..n}

\* The lists a bulk operation is called with.
KeyLists == SeqsUpTo(Keys, MaxBatch)
ValueLists == SeqsUpTo(Values, MaxBatch)

\* Option<V>: None is the empty sequence, Some(v) is <<v>>.
None == <<>>
Some(v) == <<v>>

VARIABLES
  cache,    \* the LruCache behind the Mutex: [cap, items], items MRU first
  locked,   \* whether the Mutex is held between two steps of the model
  pending,  \* the values a running insert_all has not yet processed
  op,       \* the call that ran last: its name,
  arg,      \*   its argument
  ret,      \*   and what it returned
  rank,     \* observer: each key's recency rank (0 = not cached, 1 = oldest)
  trace     \* observer: the calls made so far, while they form a tracked run

vars == <<cache, locked, pending, op, arg, ret, rank, trace>>

\* The call that ran last.
last == [op |-> op, arg |-> arg, ret |-> ret]

\* The cache built with metrics (cfg with_metrics), run in step with the
\* same calls on a cache built without them.
VARIABLES
  hits,         \* metrics::CACHE_HIT_COUNT
  misses,       \* metrics::CACHE_MISS_COUNT
  lookups,      \* observer: the number of get and remove calls made
  plain_cache,  \* the cache of the build without metrics
  plain_ret     \* what its last call returned

metricsVars == <<hits, misses, lookups, plain_cache, plain_ret>>

\* The variables a specification does not use keep these values.
MetricsUnused ==
  /\ hits = 0
  /\ misses = 0
  /\ lookups = 0
  /\ plain_cache = <<>>
  /\ plain_ret = <<>>

\* Callers on several threads, each making one call at a time on one cache.
VARIABLES
  owner,    \* the thread holding the MutexGuard, 0 when the Mutex is free
  t_pc,     \* where each thread is in its call
  t_call,   \* the call each thread makes
  t_local,  \* the local variables of each thread's call
  t_ret,    \* what each thread's call returned
  cache0    \* the cache before the first of the calls

threadVars == <<owner, t_pc, t_call, t_local, t_ret, cache0>>

ThreadsUnused ==
  /\ owner = 0
  /\ t_pc = <<>>
  /\ t_call = <<>>
  /\ t_local = <<>>
  /\ t_ret = <<>>
  /\ cache0 = <<>>

\* The variables of the specifications of the cache, for those of the
\* storage layers to leave alone.
cacheVars ==
  <<cache, locked, pending, op, arg, ret, rank, trace, metricsVars, threadVars>>

CacheUnused ==
  /\ cache = <<>>
  /\ locked = FALSE
  /\ pending = <<>>
  /\ op = "none"
  /\ arg = <<>>
  /\ ret = <<>>
  /\ rank = <<>>
  /\ trace = <<>>
  /\ MetricsUnused
  /\ ThreadsUnused

\* The journaling layer over the DynamoDB adapter, one store per root key.
VARIABLES
  j_store,    \* the table: for each root key, the value under each key
  j_journal,  \* the journal record persisted for each root key, if any
  j_task,     \* the request being served: its root key, phase and progress
  j_event,    \* what the last step did, and what it returned
  j_before,   \* observer: each root key's content when its last batch was submitted
  j_expect    \* observer: that content with the whole batch applied

journalVars == <<j_store, j_journal, j_task, j_event, j_before, j_expect>>

JournalUnused ==
  /\ j_store = <<>>
  /\ j_journal = <<>>
  /\ j_task = <<>>
  /\ j_event = <<>>
  /\ j_before = <<>>
  /\ j_expect = <<>>

\* The value-splitting layer, for one key.
VARIABLES
  s_phys,    \* the physical records under the key's derived keys
  s_task,    \* the latest write: its value, the next record to put, in progress or not
  s_event,   \* what the last step did, and what it returned
  s_latest   \* observer: the value last put in full, and whether a record was put since

splitVars == <<s_phys, s_task, s_event, s_latest>>

SplitUnused ==
  /\ s_phys = <<>>
  /\ s_task = <<>>
  /\ s_event = <<>>
  /\ s_latest = <<>>

\* The DynamoDB adapter: one store handle on one root key, and its clone.
VARIABLES
  a_written,  \* DynamoDbStoreInternal::root_key_written
  a_table,    \* the items of the root key's partition: the value length by key length
  a_event,    \* the last call: its name, its result, the requests it sent
  a_start,    \* the length of DynamoDbStoreInternal::start_key
  a_call      \* the write_batch of each caller that waits for the backend

adapterVars == <<a_written, a_table, a_event, a_start, a_call>>

AdapterUnused ==
  /\ a_written = FALSE
  /\ a_table = <<>>
  /\ a_event = <<>>
  /\ a_start = 0
  /\ a_call = <<>>

\* The DynamoDB table of one namespace, written by concurrent write_batch
\* calls on store handles and their clones.
VARIABLES
  d_items,    \* the items of the table: partition, key and value length
  d_handle,   \* DynamoDbStoreInternal::start_key of each handle
  d_written,  \* DynamoDbStoreInternal::root_key_written of each handle
  d_call,     \* each task's write_batch: where it is, what it has in flight
  d_event     \* the last step: the call that returned, or the request sent

storeVars == <<d_items, d_handle, d_written, d_call, d_event>>

StoreUnused ==
  /\ d_items = <<>>
  /\ d_handle = <<>>
  /\ d_written = <<>>
  /\ d_call = <<>>
  /\ d_event = <<>>

\* The admission gate of one connection: the stores that share its
\* semaphore, and the backend calls of their operations.
VARIABLES
  g_table,    \* the items of the reading store's partition: value by key
  g_permits,  \* the permits the semaphore has left
  g_run,      \* each task's operation: its name, its keys, its backend calls
  g_event     \* what the last operation of the reading task returned

gateVars == <<g_table, g_permits, g_run, g_event>>

GateUnused ==
  /\ g_table = <<>>
  /\ g_permits = 0
  /\ g_run = <<>>
  /\ g_event = <<>>

\* The composed store, DynamoDbDatabase: a call on its way through the
\* layers.
VARIABLES
  l_metrics,  \* the build: with_metrics or not
  l_call,     \* the operation called on the composed store, if any
  l_path,     \* the layers the call has entered, the outermost first
  l_depth     \* the layers that have not yet returned

stackVars == <<l_metrics, l_call, l_path, l_depth>>

StackUnused ==
  /\ l_metrics = FALSE
  /\ l_call = "unused"
  /\ l_path = <<>>
  /\ l_depth = 0

\* The items the backend returns for one partition, well-formed or not.
VARIABLES
  r_items,  \* the items of the partition, in the order of their keys
  r_event   \* the last read: its name, its input, its result

rawVars == <<r_items, r_event>>

RawUnused ==
  /\ r_items = <<>>
  /\ r_event = <<>>

\* DynamoDbDatabaseInternal::connect, exists, create, delete and
\* delete_all on the tables of the backend.
VARIABLES
  n_namespace,  \* the name given to the calls
  n_result,     \* the last call that returned, its result and its requests
  n_tables,     \* the tables of the backend
  n_pending     \* delete_all between its requests: the tables it has yet
                \* to delete and the requests it sent

namespaceVars == <<n_namespace, n_result, n_tables, n_pending>>

NamespaceUnused ==
  /\ n_namespace = <<>>
  /\ n_result = "unused"
  /\ n_tables = {}
  /\ n_pending = <<>>

\* The faucet service: its configuration, its chain's balance, and the
\* claim requests it is serving.
VARIABLES
  f_self,     \* MutationRoot: amount, start_timestamp, end_timestamp, start_balance
  f_clock,    \* the local time of the storage's clock
  f_balance,  \* the local balance of the faucet's chain
  f_claim,    \* each request's do_claim: where it is, what it has read
  f_opened,   \* the chains opened so far, and the claims that returned one
  f_event     \* the last claim that returned: its task and its result

faucetVars == <<f_self, f_clock, f_balance, f_claim, f_opened, f_event>>

FaucetUnused ==
  /\ f_self = <<>>
  /\ f_clock = 0
  /\ f_balance = 0
  /\ f_claim = <<>>
  /\ f_opened = <<>>
  /\ f_event = <<>>

\* Two calls of the faucet's multiply, and the comparison of their results.
VARIABLES
  m_args,    \* the arguments (a, b) of the left and of the right call
  m_result   \* the limbs each call returned, once called

productVars == <<m_args, m_result>>

ProductUnused ==
  /\ m_args = <<>>
  /\ m_result = <<>>

\* A batch on its way into the value of one journal entry.
VARIABLES
  b_batch,  \* the key lengths deleted, the (key, value) lengths inserted
  b_size    \* the serialized size of the batch, once computed

batchVars == <<b_batch, b_size>>

BatchUnused ==
  /\ b_batch = <<>>
  /\ b_size = -1

\* The variables of the faucet and of the numerical specifications.
serviceVars == <<faucetVars, productVars, batchVars>>

ServiceUnused == FaucetUnused /\ ProductUnused /\ BatchUnused


\* The variables of the request-level specifications of the adapter.
dynamoVars == <<storeVars, gateVars, stackVars, rawVars, namespaceVars>>

DynamoUnused ==
  StoreUnused /\ GateUnused /\ StackUnused /\ RawUnused /\ NamespaceUnused

\* The variables of the storage specifications.
otherVars == <<journalVars, splitVars, adapterVars, dynamoVars, serviceVars>>

OthersUnused ==
  JournalUnused /\ SplitUnused /\ AdapterUnused /\ DynamoUnused /\ ServiceUnused

\* What a step of the cache built without metrics leaves alone.
OutsideCache == UNCHANGED <<metricsVars, threadVars, otherVars>>

\* What the cache built without metrics does not use.
OutsideCacheUnused == MetricsUnused /\ ThreadsUnused /\ OthersUnused

----------------------------------------------------------------------------
(* lru::LruCache, as used by value_cache.rs *)

\* LruCache::new(cap)
LruNew(cap) == [cap |-> cap, items |-> <<>>]

\* LruCache::iter().map(|(key, _)| *key), most recently used first
LruKeys(c) == [i \in 1..Len(c.items) |-> c.items[i].key]

KeySet(c) == {c.items[i].key : i \in 1..Len(c.items)}

\* LruCache::contains: no change of the recency order
LruContains(c, k) == k \in KeySet(c)

\* The position of a cached key in the list.
LruIndex(c, k) == CHOOSE i \in 1..Len(c.items) : c.items[i].key = k

\* The list without the entry at position i.
DropAt(items, i) == SubSeq(items, 1, i - 1) \o SubSeq(items, i + 1, Len(items))

\* LruCache::peek: the stored value, no change of the recency order
LruPeek(c, k) ==
  IF LruContains(c, k) THEN Some(c.items[LruIndex(c, k)].value) ELSE None

\* LruCache::promote: the entry moves to the front, nothing if absent
LruPromote(c, k) ==
  IF LruContains(c, k)
  THEN LET i == LruIndex(c, k)
       IN [c EXCEPT !.items = <<c.items[i]>> \o DropAt(c.items, i)]
  ELSE c

\* LruCache::get: the value, and the entry moves to the front
LruGet(c, k) == [value |-> LruPeek(c, k), cache |-> LruPromote(c, k)]

\* LruCache::pop: the entry is removed and its value returned
LruPop(c, k) ==
  IF LruContains(c, k)
  THEN [value |-> LruPeek(c, k),
        cache |-> [c EXCEPT !.items = DropAt(c.items, LruIndex(c, k))]]
  ELSE [value |-> None, cache |-> c]

\* LruCache::push: a cached key gets the new value and moves to the front;
\* an absent key is put in front, after the entry at the back is dropped
\* if the cache is full.
LruPush(c, k, v) ==
  LET e == [value |-> v, key |-> k]
  IN IF LruContains(c, k)
     THEN [c EXCEPT !.items = <<e>> \o DropAt(c.items, LruIndex(c, k))]
     ELSE IF Len(c.items) >= c.cap
          THEN [c EXCEPT !.items = <<e>> \o SubSeq(c.items, 1, c.cap - 1)]
          ELSE [c EXCEPT !.items = <<e>> \o c.items]

\* LruCache::resize, growing
LruGrow(c) == [c EXCEPT !.cap = c.cap + 1]

----------------------------------------------------------------------------
(* ValueCache *)

\* ValueCache::default
ValueCache_default == LruNew(CacheSize)

\* ValueCache::keys
keys(c) == LruKeys(c)

contains_promoting(c, k) == [cache |-> LruGet(c, k).cache, ret |-> LruContains(c, k)]

\* ValueCache::contains
contains(c, k) == [cache |-> c, ret |-> LruContains(c, k)]

RECURSIVE subtract_uncached_items_from(_, _)
subtract_uncached_items_from(c, items) ==
  IF items = <<>> THEN <<>>
  ELSE (IF LruContains(c, hash(Head(items))) THEN <<Head(items)>> ELSE <<>>)
       \o subtract_uncached_items_from(c, Tail(items))

\* ValueCache::subtract_cached_items_from, the key_extractor being hash:
\* items.into_iter().filter(|item| !cache.contains(key_extractor(item)))
RECURSIVE subtract_cached_items_from(_, _)
subtract_cached_items_from(c, items) ==
  IF items = <<>> THEN <<>>
  ELSE (IF ~LruContains(c, hash(Head(items))) THEN <<Head(items)>> ELSE <<>>)
       \o subtract_cached_items_from(c, Tail(items))

insert_owned_growing(c, k, v) ==
  IF LruContains(c, k)
  THEN [cache |-> LruPromote(c, k), ret |-> FALSE]
  ELSE [cache |-> LruPush(IF Len(c.items) >= c.cap THEN LruGrow(c) ELSE c, k, v),
        ret |-> TRUE]

insert_owned_not_promoting(c, k, v) ==
  IF LruContains(c, k)
  THEN [cache |-> c, ret |-> FALSE]
  ELSE [cache |-> LruPush(c, k, v), ret |-> TRUE]

insert_owned_overwriting(c, k, v) ==
  [cache |-> LruPush(c, k, v), ret |-> ~LruContains(c, k)]

insert_owned_unconditional(c, k, v) ==
  [cache |-> LruPush(c, k, v), ret |-> TRUE]

\* ValueCache::insert_owned
insert_owned(c, k, v) ==
  IF LruContains(c, k)
  THEN [cache |-> LruPromote(c, k), ret |-> FALSE]
  ELSE [cache |-> LruPush(c, k, v), ret |-> TRUE]

\* ValueCache<CryptoHash, Hashed<T>>::insert and ValueCache<BlobId, Blob>::insert
insert(c, value) ==
  IF LruContains(c, hash(value))
  THEN [cache |-> LruPromote(c, hash(value)), ret |-> FALSE]
  ELSE [cache |-> LruPush(c, hash(value), value), ret |-> TRUE]

remove_oldest(c, k) ==
  IF LruContains(c, k)
  THEN [cache |-> [c EXCEPT !.items = SubSeq(c.items, 1, Len(c.items) - 1)],
        ret |-> LruPeek(c, k)]
  ELSE [cache |-> c, ret |-> None]

\* ValueCache::remove
remove(c, k) == [cache |-> LruPop(c, k).cache, ret |-> LruPop(c, k).value]

get_peeking(c, k) == [cache |-> c, ret |-> LruPeek(c, k)]

\* ValueCache::get
get(c, k) == [cache |-> LruGet(c, k).cache, ret |-> LruGet(c, k).value]

\* keys.into_iter().partition(|key| cache.contains(key)), one side of it
RECURSIVE partition(_, _, _)
partition(c, ks, cached) ==
  IF ks = <<>> THEN <<>>
  ELSE (IF LruContains(c, Head(ks)) = cached THEN <<Head(ks)>> ELSE <<>>)
       \o partition(c, Tail(ks), cached)

\* found_keys.into_iter().map(|key| (key, cache.get(&key).expect(..).clone())):
\* each get moves its key to the front; a key that is not cached panics.
RECURSIVE get_pairs(_, _)
get_pairs(c, ks) ==
  IF ks = <<>> THEN [cache |-> c, pairs |-> <<>>, panic |-> FALSE]
  ELSE LET g == LruGet(c, Head(ks))
           r == get_pairs(g.cache, Tail(ks))
       IN IF g.value = None
          THEN [cache |-> g.cache, pairs |-> <<>>, panic |-> TRUE]
          ELSE [cache |-> r.cache,
                pairs |-> << <<Head(ks), g.value[1]>> >> \o r.pairs,
                panic |-> r.panic]

try_get_many_unfiltered(c, ks) ==
  LET r == get_pairs(c, partition(c, ks, TRUE))
  IN [cache |-> r.cache,
      ret |-> [panic |-> r.panic, found |-> r.pairs, not_found |-> ks]]

\* ValueCache::try_get_many
try_get_many(c, ks) ==
  LET r == get_pairs(c, partition(c, ks, TRUE))
  IN [cache |-> r.cache,
      ret |-> [panic |-> r.panic,
               found |-> r.pairs,
               not_found |-> partition(c, ks, FALSE)]]

insert_all_item_overwriting(c, value) ==
  [cache |-> LruPush(c, hash(value), value), ret |-> ~LruContains(c, hash(value))]

\* ValueCache::insert_all, one turn of its loop
insert_all_item(c, value) ==
  IF ~LruContains(c, hash(value))
  THEN [cache |-> LruPush(c, hash(value), value), ret |-> TRUE]
  ELSE [cache |-> c, ret |-> FALSE]

insert_all_guard_per_item(rest) == FALSE

\* ValueCache::insert_all: whether its MutexGuard is still held after a turn
\* of the loop that leaves `rest` to process.  The guard is taken before the
\* loop and dropped when the function returns.
insert_all_guard(rest) == rest # <<>>

----------------------------------------------------------------------------
(* Observers.  Neither is read by any operation of the cache. *)

Max(S) == CHOOSE x \in S : \A y \in S : y <= x

\* Each key of ks, in order, becomes the most recently used one.
RECURSIVE Refresh(_, _)
Refresh(r, ks) ==
  IF ks = <<>> THEN r
  ELSE Refresh([r EXCEPT ![Head(ks)] = Max({r[k] : k \in Keys}) + 1], Tail(ks))

\* The recency ranks after a call that used the keys ks, in that order, and
\* left the keys of `present` cached: ranks 1..n, 1 the least recently used.
RankAfter(r, ks, present) ==
  LET t == Refresh(r, ks)
  IN [k \in Keys |->
        IF k \in present
        THEN Cardinality({j \in present : t[j] <= t[k]})
        ELSE 0]

\* A call is recorded by its operation and its key.
Call(name, k) == [op |-> name, key |-> k]

\* insert(a, _), insert(b, _), get(a), insert(c, _), whatever the values
Scenario ==
  << Call("insert_owned", "a"), Call("insert_owned", "b"),
     Call("get", "a"), Call("insert_owned", "c") >>

IsPrefix(s, t) == Len(s) <= Len(t) /\ SubSeq(t, 1, Len(s)) = s

\* Insertions only, each of another key.
DistinctInserts(calls) ==
  /\ \A i \in 1..Len(calls) : calls[i].op \in {"insert_owned", "insert"}
  /\ \A i, j \in 1..Len(calls) : calls[i].key = calls[j].key => i = j

Tracked(calls) ==
  \/ IsPrefix(calls, Scenario)
  \/ DistinctInserts(calls) /\ Len(calls) <= CacheSize + 1

Untracked == [calls |-> <<>>, on |-> FALSE]

Record(t, call) ==
  IF t.on /\ Tracked(Append(t.calls, call))
  THEN [calls |-> Append(t.calls, call), on |-> TRUE]
  ELSE Untracked

----------------------------------------------------------------------------
(* The state machine: any caller may make any call whenever the Mutex is    *)
(* free.  A call other than insert_all takes the Mutex, does all its work   *)
(* and drops the Mutex in one step.                                         *)

Init ==
  /\ cache = ValueCache_default
  /\ locked = FALSE
  /\ pending = <<>>
  /\ op = "default"
  /\ arg = None
  /\ ret = None
  /\ rank = [k \in Keys |-> 0]
  /\ trace = [calls |-> <<>>, on |-> TRUE]
  /\ OutsideCacheUnused

\* A call that runs under the Mutex in one step.
Returns(name, input, r, used, call) ==
  /\ ~locked
  /\ cache' = r.cache
  /\ op' = name
  /\ arg' = input
  /\ ret' = r.ret
  /\ rank' = RankAfter(rank, used, KeySet(r.cache))
  /\ trace' = call
  /\ UNCHANGED <<locked, pending>>
  /\ OutsideCache

Keys_ ==
  Returns("keys", None, [cache |-> cache, ret |-> keys(cache)], <<>>, Untracked)

Contains(k) ==
  Returns("contains", k, contains(cache, k), <<>>, Untracked)

SubtractCachedItemsFrom(items) ==
  Returns("subtract_cached_items_from", items,
          [cache |-> cache, ret |-> subtract_cached_items_from(cache, items)],
          <<>>, Untracked)

InsertOwned(k, v) ==
  Returns("insert_owned", <<k, v>>, insert_owned(cache, k, v), <<k>>,
          Record(trace, Call("insert_owned", k)))

Insert(value) ==
  Returns("insert", <<hash(value), value>>, insert(cache, value), <<hash(value)>>,
          Record(trace, Call("insert", hash(value))))

Remove(k) ==
  Returns("remove", k, remove(cache, k), <<>>, Untracked)

Get(k) ==
  Returns("get", k, get(cache, k),
          IF k \in KeySet(cache) THEN <<k>> ELSE <<>>,
          Record(trace, Call("get", k)))

TryGetMany(ks) ==
  Returns("try_get_many", ks, try_get_many(cache, ks),
          SelectSeq(ks, LAMBDA k : k \in KeySet(cache)), Untracked)

\* insert_all takes the Mutex and starts its loop over `values`.
InsertAll(values) ==
  /\ ~locked
  /\ pending = <<>>
  /\ pending' = values
  /\ locked' = insert_all_guard(values)
  /\ op' = "insert_all"
  /\ arg' = values
  /\ ret' = None
  /\ trace' = Untracked
  /\ UNCHANGED <<cache, rank>>
  /\ OutsideCache

\* One turn of the loop of insert_all; after the last one the Mutex is free.
InsertAllItem ==
  /\ pending # <<>>
  /\ LET value == Head(pending)
         r == insert_all_item(cache, value)
     IN /\ cache' = r.cache
        /\ op' = "insert_all_item"
        /\ arg' = <<hash(value), value>>
        /\ ret' = r.ret
        /\ rank' = RankAfter(rank,
                             IF hash(value) \in KeySet(cache) THEN <<>>
                             ELSE <<hash(value)>>,
                             KeySet(r.cache))
  /\ pending' = Tail(pending)
  /\ locked' = insert_all_guard(Tail(pending))
  /\ trace' = Untracked
  /\ OutsideCache

Next ==
  \/ Keys_
  \/ \E k \in Keys : Contains(k)
  \/ \E items \in ValueLists : SubtractCachedItemsFrom(items)
  \/ \E k \in Keys, v \in Values : InsertOwned(k, v)
  \/ \E value \in Values : Insert(value)
  \/ \E k \in Keys : Remove(k)
  \/ \E k \in Keys : Get(k)
  \/ \E ks \in KeyLists : TryGetMany(ks)
  \/ \E values \in ValueLists : InsertAll(values)
  \/ InsertAllItem

Spec == Init /\ [][Next]_vars

----------------------------------------------------------------------------
(* What the properties below read off a step. *)

Inserts == {"insert_owned", "insert"}

\* The keys a step removes from the cache.
Evicted == KeySet(cache) \ KeySet(cache')

\* The entries of c other than the one of key k, in their order.
Others(c, k) == SelectSeq(c.items, LAMBDA e : e.key # k)

\* The set of elements of a list.
Range(s) == {s[i] : i \in 1..Len(s)}

----------------------------------------------------------------------------
\* C1: in every reachable state the number of cached entries is at most the
\* capacity, and the capacity is the one the cache was constructed with.
C1_CapacityBound ==
  /\ Len(cache.items) <= cache.cap
  /\ cache.cap = ValueCache_default.cap

\* A full cache has just taken one more absent key.
C1_Witness ==
  /\ last.op = "insert"
  /\ last.ret = TRUE
  /\ Len(cache.items) = cache.cap
  /\ trace.on
  /\ Len(trace.calls) > cache.cap

\* C2: an insert/insert_owned of an absent key into a full cache evicts
\* exactly one entry, the least recently used one (recency being refreshed
\* by insertion, re-insertion, get and a try_get_many hit); below capacity
\* it evicts nothing; and capacity+1 insertions of distinct keys with no
\* other call evict exactly the key inserted first.
C2_EvictsLeastRecentlyUsed ==
  [][ /\ (last'.op \in Inserts /\ last'.arg[1] \notin KeySet(cache)) =>
           /\ IF Len(cache.items) = cache.cap
              THEN /\ Cardinality(Evicted) = 1
                   /\ Evicted = {k \in Keys : rank[k] = 1}
              ELSE Evicted = {}
           /\ KeySet(cache') = (KeySet(cache) \ Evicted) \cup {last'.arg[1]}
      /\ (trace'.on /\ DistinctInserts(trace'.calls)
                    /\ Len(trace'.calls) = cache.cap + 1) =>
           Evicted = {trace'.calls[1].key}
    ]_vars

\* capacity+1 distinct keys went in, nothing else was called, and the first
\* of them is gone.
C2_Witness ==
  /\ trace.on
  /\ DistinctInserts(trace.calls)
  /\ Len(trace.calls) = cache.cap + 1
  /\ trace.calls[1].key \notin KeySet(cache)
  /\ Len(cache.items) = cache.cap

\* C3: a get that hits returns the stored value and makes its key the most
\* recently used entry, so an insertion of an absent key right after it into
\* the full cache evicts one other entry and not that key; and after
\* insert(a), insert(b), get(a), insert(c) on a capacity-2 cache, b is
\* evicted: a and c are contained and b is not.
C3_GetProtectsFromEviction ==
  [][ /\ (last'.op = "get" /\ last'.arg \in KeySet(cache)) =>
           /\ last'.ret = LruPeek(cache, last'.arg)
           /\ cache'.items[1].key = last'.arg
           /\ Others(cache', last'.arg) = Others(cache, last'.arg)
      /\ (/\ last.op = "get" /\ last.ret # None
          /\ last'.op \in Inserts /\ last'.arg[1] \notin KeySet(cache)
          /\ Len(cache.items) = cache.cap) =>
           /\ last.arg \in KeySet(cache')
           /\ Cardinality(Evicted) = 1
      /\ (trace'.on /\ trace'.calls = Scenario /\ cache.cap = 2) =>
           /\ Evicted = {"b"}
           /\ contains(cache', "a").ret
           /\ ~contains(cache', "b").ret
           /\ contains(cache', "c").ret
    ]_vars

\* The capacity-2 scenario has run to its end.
C3_Witness ==
  /\ cache.cap = 2
  /\ trace.on
  /\ trace.calls = Scenario
  /\ KeySet(cache) = {"a", "c"}

\* C4: an insert/insert_owned of a cached key returns false, leaves the set
\* of keys, the size and every stored value as they were (the value passed
\* is dropped, so a get still returns the value stored first), and only
\* moves that key to the most recently used position.
C4_ReinsertOnlyPromotes ==
  [][ (last'.op \in Inserts /\ last'.arg[1] \in KeySet(cache)) =>
        /\ last'.ret = FALSE
        /\ KeySet(cache') = KeySet(cache)
        /\ Len(cache'.items) = Len(cache.items)
        /\ \A k \in Keys : LruPeek(cache', k) = LruPeek(cache, k)
        /\ get(cache', last'.arg[1]).ret = LruPeek(cache, last'.arg[1])
        /\ cache'.items[1].key = last'.arg[1]
        /\ Others(cache', last'.arg[1]) = Others(cache, last'.arg[1])
    ]_vars

\* A cached key that was not the most recently used one was inserted again
\* with another value than the stored one.
C4_Witness ==
  /\ last.op = "insert_owned"
  /\ last.ret = FALSE
  /\ Len(cache.items) = cache.cap
  /\ cache.items[1].key = last.arg[1]
  /\ cache.items[1].value # last.arg[2]
  /\ rank[last.arg[1]] = cache.cap
  /\ ~trace.on

\* C5: insert/insert_owned returns true exactly when the key was absent
\* right before the call; after a call that returned true the key is
\* contained and get returns the inserted value.
C5_InsertReturnsAbsent ==
  [][ last'.op \in Inserts =>
        /\ last'.ret = (last'.arg[1] \notin KeySet(cache))
        /\ last'.ret =>
             /\ contains(cache', last'.arg[1]).ret
             /\ get(cache', last'.arg[1]).ret = Some(last'.arg[2])
    ]_vars

\* An insert of a content-addressed value returned true.
C5_Witness ==
  /\ last.op = "insert"
  /\ last.ret = TRUE
  /\ LruPeek(cache, last.arg[1]) = Some(last.arg[2])

\* C6: remove of a cached key returns the stored value, after which the key
\* is not contained, the size is one less and the other entries are as they
\* were, in the same order; remove of an absent key returns nothing and
\* leaves the cache as it was.
C6_RemoveTakesOneEntry ==
  [][ last'.op = "remove" =>
        IF last'.arg \in KeySet(cache)
        THEN /\ last'.ret = LruPeek(cache, last'.arg)
             /\ last'.ret # None
             /\ ~contains(cache', last'.arg).ret
             /\ Len(cache'.items) = Len(cache.items) - 1
             /\ cache'.items = Others(cache, last'.arg)
             /\ cache'.cap = cache.cap
        ELSE /\ last'.ret = None
             /\ cache' = cache
    ]_vars

\* The most recently used entry of a full cache was removed, another stays.
C6_Witness ==
  /\ last.op = "remove"
  /\ last.ret # None
  /\ Len(cache.items) = cache.cap - 1
  /\ Len(cache.items) >= 1
  /\ rank[last.arg] = 0

\* C7: try_get_many(K) returns found and not_found such that the keys of
\* found and not_found together are the keys of K, no key is in both, a key
\* is in found exactly when it was cached right before the call, and every
\* found pair carries the value stored for its key.
C7_TryGetManyPartitions ==
  [][ last'.op = "try_get_many" =>
        LET found == last'.ret.found
            not_found == last'.ret.not_found
            found_keys == {found[i][1] : i \in 1..Len(found)}
        IN /\ ~last'.ret.panic
           /\ found_keys \cup Range(not_found) = Range(last'.arg)
           /\ found_keys \cap Range(not_found) = {}
           /\ found_keys = Range(last'.arg) \cap KeySet(cache)
           /\ \A i \in 1..Len(found) :
                LruPeek(cache, found[i][1]) = Some(found[i][2])
    ]_vars

\* A call found one of its keys and missed another.
C7_Witness ==
  /\ last.op = "try_get_many"
  /\ Len(last.ret.found) >= 1
  /\ Len(last.ret.not_found) >= 1

\* C8: subtract_cached_items_from returns exactly the items whose extracted
\* key is not cached at the time of the call, in their input order, none
\* dropped and none repeated.
C8_SubtractKeepsUncached ==
  [][ last'.op = "subtract_cached_items_from" =>
        last'.ret = SelectSeq(last'.arg, LAMBDA item : hash(item) \notin KeySet(cache))
    ]_vars

\* Of two items, the cached one was taken out and the other returned.
C8_Witness ==
  /\ last.op = "subtract_cached_items_from"
  /\ Len(last.arg) = 2
  /\ Len(last.ret) = 1
  /\ hash(last.ret[1]) \notin KeySet(cache)

\* C9: contains, keys and subtract_cached_items_from leave the entries,
\* their values and the recency order as they were; contains tells whether
\* the key is cached and keys returns exactly the cached keys.
C9_ReadOnlyCalls ==
  [][ /\ last'.op \in {"contains", "keys", "subtract_cached_items_from"} =>
           cache' = cache
      /\ last'.op = "contains" => last'.ret = (last'.arg \in KeySet(cache))
      /\ last'.op = "keys" =>
           /\ Range(last'.ret) = KeySet(cache)
           /\ Len(last'.ret) = Cardinality(KeySet(cache))
    ]_vars

\* contains found a key that is still the least recently used one.
C9_Witness ==
  /\ last.op = "contains"
  /\ last.ret = TRUE
  /\ Len(cache.items) >= 2
  /\ cache.items[Len(cache.items)].key = last.arg

\* C10: insert_all skips a value whose key is cached, leaving the stored
\* value as it was, and inserts a value whose key is absent when its turn
\* comes; from its first turn to its last the Mutex stays held, so every
\* step taken in between is a turn of that insert_all.
C10_InsertAllSkipsCached ==
  [][ /\ last'.op = "insert_all_item" =>
           IF last'.arg[1] \in KeySet(cache)
           THEN /\ KeySet(cache') = KeySet(cache)
                /\ \A k \in Keys : LruPeek(cache', k) = LruPeek(cache, k)
           ELSE /\ LruPeek(cache', last'.arg[1]) = Some(last'.arg[2])
                /\ last'.arg[1] \in KeySet(cache')
      /\ pending # <<>> =>
           /\ locked
           /\ last'.op = "insert_all_item"
           /\ last'.arg = <<hash(Head(pending)), Head(pending)>>
           /\ pending' = Tail(pending)
      /\ (pending = <<>> /\ pending' # <<>>) => (~locked /\ locked')
    ]_vars

\* In the middle of an insert_all a value was skipped whose key holds
\* another value.
C10_Witness ==
  /\ last.op = "insert_all_item"
  /\ last.ret = FALSE
  /\ LruPeek(cache, last.arg[1]) # Some(last.arg[2])
  /\ pending # <<>>
  /\ locked

----------------------------------------------------------------------------
(* The cache built with metrics (cfg with_metrics): get and remove pass    *)
(* what they found through track_cache_usage.  The same calls are made on  *)
(* a cache of a build without metrics, whose track_cache_usage only hands  *)
(* its argument back.                                                      *)

\* The number of get and remove calls of a run.
MaxLookups == 2

\* The length of the lists handed to the calls of such a run.
MetricsBatch == 1

\* The keys the calls of such a run are made with.
LookupKeys == {"a", "b", "c"}

track_cache_usage_swapped(with_metrics, hit, miss, maybe_value) ==
  [value |-> maybe_value,
   hit |-> IF with_metrics /\ maybe_value = None THEN hit + 1 ELSE hit,
   miss |-> IF with_metrics /\ maybe_value # None THEN miss + 1 ELSE miss]

track_cache_usage_taking(with_metrics, hit, miss, maybe_value) ==
  [value |-> IF with_metrics THEN None ELSE maybe_value,
   hit |-> IF with_metrics /\ maybe_value # None THEN hit + 1 ELSE hit,
   miss |-> IF with_metrics /\ maybe_value = None THEN miss + 1 ELSE miss]

\* ValueCache::track_cache_usage: under cfg(with_metrics) one of the two
\* counters is incremented, CACHE_HIT_COUNT if maybe_value.is_some() and
\* CACHE_MISS_COUNT otherwise; maybe_value is returned in either build.
track_cache_usage(with_metrics, hit, miss, maybe_value) ==
  [value |-> maybe_value,
   hit |-> IF with_metrics /\ maybe_value # None THEN hit + 1 ELSE hit,
   miss |-> IF with_metrics /\ maybe_value = None THEN miss + 1 ELSE miss]

\* ValueCache::get: Self::track_cache_usage(cache.get(hash).cloned())
get_tracked(with_metrics, hit, miss, c, k) ==
  LET t == track_cache_usage(with_metrics, hit, miss, LruGet(c, k).value)
  IN [cache |-> LruGet(c, k).cache, ret |-> t.value, hit |-> t.hit, miss |-> t.miss]

\* ValueCache::remove: Self::track_cache_usage(cache.pop(hash))
remove_tracked(with_metrics, hit, miss, c, k) ==
  LET t == track_cache_usage(with_metrics, hit, miss, LruPop(c, k).value)
  IN [cache |-> LruPop(c, k).cache, ret |-> t.value, hit |-> t.hit, miss |-> t.miss]

\* ValueCache::insert_all, the whole loop
RECURSIVE insert_all(_, _)
insert_all(c, values) ==
  IF values = <<>> THEN c
  ELSE insert_all(insert_all_item(c, Head(values)).cache, Tail(values))

metricsView ==
  <<op, cache, arg, ret, hits, misses, lookups, plain_cache, plain_ret>>

\* What a step of the two builds leaves alone.
OutsideMetrics ==
  UNCHANGED <<locked, pending, rank, trace, threadVars, otherVars>>

MetricsInit ==
  /\ cache = ValueCache_default
  /\ plain_cache = ValueCache_default
  /\ op = "default"
  /\ arg = None
  /\ ret = None
  /\ plain_ret = None
  /\ hits = 0
  /\ misses = 0
  /\ lookups = 0
  /\ locked = FALSE
  /\ pending = <<>>
  /\ rank = [k \in Keys |-> 0]
  /\ trace = Untracked
  /\ ThreadsUnused
  /\ OthersUnused

\* A call that goes through track_cache_usage, made on both builds.
Counted(name, k, r, plain) ==
  /\ lookups < MaxLookups
  /\ lookups' = lookups + 1
  /\ op' = name
  /\ arg' = k
  /\ cache' = r.cache
  /\ ret' = r.ret
  /\ hits' = r.hit
  /\ misses' = r.miss
  /\ plain_cache' = plain.cache
  /\ plain_ret' = plain.ret
  /\ OutsideMetrics

\* A call that does not go through track_cache_usage, made on both builds.
Uncounted(name, input, r, plain) ==
  /\ op' = name
  /\ arg' = input
  /\ cache' = r.cache
  /\ ret' = r.ret
  /\ plain_cache' = plain.cache
  /\ plain_ret' = plain.ret
  /\ UNCHANGED <<hits, misses, lookups>>
  /\ OutsideMetrics

MetricsGet(k) ==
  Counted("get", k, get_tracked(TRUE, hits, misses, cache, k),
           get_tracked(FALSE, 0, 0, plain_cache, k))

MetricsRemove(k) ==
  Counted("remove", k, remove_tracked(TRUE, hits, misses, cache, k),
           remove_tracked(FALSE, 0, 0, plain_cache, k))

MetricsKeys ==
  Uncounted("keys", None, [cache |-> cache, ret |-> keys(cache)],
             [cache |-> plain_cache, ret |-> keys(plain_cache)])

MetricsContains(k) ==
  Uncounted("contains", k, contains(cache, k), contains(plain_cache, k))

MetricsSubtractCachedItemsFrom(items) ==
  Uncounted("subtract_cached_items_from", items,
             [cache |-> cache, ret |-> subtract_cached_items_from(cache, items)],
             [cache |-> plain_cache,
              ret |-> subtract_cached_items_from(plain_cache, items)])

MetricsInsertOwned(k, v) ==
  Uncounted("insert_owned", <<k, v>>, insert_owned(cache, k, v),
             insert_owned(plain_cache, k, v))

MetricsInsert(value) ==
  Uncounted("insert", <<hash(value), value>>, insert(cache, value),
             insert(plain_cache, value))

MetricsTryGetMany(ks) ==
  /\ ~try_get_many(cache, ks).ret.panic
  /\ Uncounted("try_get_many", ks, try_get_many(cache, ks),
                try_get_many(plain_cache, ks))

MetricsInsertAll(values) ==
  Uncounted("insert_all", values,
             [cache |-> insert_all(cache, values), ret |-> None],
             [cache |-> insert_all(plain_cache, values), ret |-> None])

MetricsNext ==
  \/ \E k \in LookupKeys : MetricsGet(k)
  \/ \E k \in LookupKeys : MetricsRemove(k)
  \/ MetricsKeys
  \/ \E k \in LookupKeys : MetricsContains(k)
  \/ \E items \in SeqsUpTo(Values, MetricsBatch) :
       MetricsSubtractCachedItemsFrom(items)
  \/ \E k \in LookupKeys, v \in Values : MetricsInsertOwned(k, v)
  \/ \E value \in Values : MetricsInsert(value)
  \/ \E ks \in SeqsUpTo(LookupKeys, MetricsBatch) : MetricsTryGetMany(ks)
  \/ \E values \in SeqsUpTo(Values, MetricsBatch) : MetricsInsertAll(values)

SpecMetrics == MetricsInit /\ [][MetricsNext]_metricsView

\* C11: with metrics, a get or a remove adds one to exactly one counter,
\* the hit counter when it returns a value and the miss counter when it
\* returns nothing; keys, contains, subtract_cached_items_from, insert,
\* insert_all and try_get_many change neither counter; the two counters
\* add up to the number of get and remove calls made.
C11_CountersCountLookups ==
  [][ /\ op' \in {"get", "remove"} =>
           /\ lookups' = lookups + 1
           /\ IF ret' # None
              THEN hits' = hits + 1 /\ misses' = misses
              ELSE hits' = hits /\ misses' = misses + 1
      /\ op' \notin {"get", "remove"} =>
           /\ hits' = hits
           /\ misses' = misses
           /\ lookups' = lookups
      /\ hits' + misses' = lookups'
    ]_metricsView

\* A remove that found its key, after both a hit and a miss were counted.
C11_Witness ==
  /\ op = "remove"
  /\ ret # None
  /\ hits >= 1
  /\ misses >= 1
  /\ hits + misses = lookups

\* C12: the build with metrics and the build without return the same
\* result for every call and hold the same entries in the same recency
\* order after it, whatever the counters hold.
C12_MetricsChangeNothing ==
  /\ cache = plain_cache
  /\ ret = plain_ret

\* Both builds returned the value of a get that was counted as a hit, the
\* cache being full.
C12_Witness ==
  /\ op = "get"
  /\ ret # None
  /\ plain_ret = ret
  /\ hits >= 1
  /\ misses >= 1
  /\ Len(cache.items) = cache.cap
  /\ plain_cache = cache

----------------------------------------------------------------------------
(* Callers on several threads.  A call takes the Mutex (lock() blocks      *)
(* while another thread holds the guard), runs its statements one step at  *)
(* a time, and drops the guard when it returns.                            *)

Threads == {1, 2}

\* The keys the threads call with.
ThreadKeys == {"a", "b", "c"}

\* The length of the key lists the threads call with.
ThreadBatch == 2

Invocation(name, k, v, ks, vs) ==
  [value |-> v, op |-> name, key |-> k, ks |-> ks, vs |-> vs]

NoCall == Invocation("none", "a", 1, <<>>, <<>>)

ThreadCalls ==
  {Invocation("insert_owned", k, v, <<>>, <<>>) : k \in ThreadKeys, v \in Values}
    \cup {Invocation("insert", hash(v), v, <<>>, <<>>) : v \in Values}
    \cup {Invocation(name, k, 1, <<>>, <<>>) :
            name \in {"get", "remove", "contains"}, k \in ThreadKeys}
    \cup {Invocation("keys", "a", 1, <<>>, <<>>)}
    \cup {Invocation("try_get_many", "a", 1, ks, <<>>) :
            ks \in SeqsUpTo(ThreadKeys, ThreadBatch)}
    \cup {Invocation(name, "a", 1, <<>>, vs) :
            name \in {"subtract_cached_items_from", "insert_all"},
            vs \in SeqsUpTo(Values, MaxBatch)}

\* The caches the calls start from: filled by insert_owned calls.
RECURSIVE Filled(_)
Filled(ks) ==
  IF ks = <<>> THEN ValueCache_default
  ELSE insert_owned(Filled(Tail(ks)), Head(ks), 1).cache

StartCaches == {Filled(ks) : ks \in SeqsUpTo(ThreadKeys, CacheSize)}

NoLocals == [found |-> <<>>, not_found |-> <<>>, rest |-> <<>>, present |-> FALSE]

mutex_lock_never_blocks(holder) == TRUE

\* Mutex::lock, in self.cache.lock().unwrap(): returns the guard once no
\* other thread holds it.
mutex_lock(holder) == holder = 0

ThreadInit ==
  /\ cache0 \in StartCaches
  /\ cache = cache0
  /\ owner = 0
  /\ t_pc = [t \in Threads |-> "ready"]
  /\ t_call = [t \in Threads |-> NoCall]
  /\ t_local = [t \in Threads |-> NoLocals]
  /\ t_ret = [t \in Threads |-> None]
  /\ locked = FALSE
  /\ pending = <<>>
  /\ op = "default"
  /\ arg = None
  /\ ret = None
  /\ rank = [k \in Keys |-> 0]
  /\ trace = Untracked
  /\ MetricsUnused
  /\ OthersUnused

OutsideThreads ==
  UNCHANGED <<locked, pending, op, arg, ret, rank, trace, metricsVars, cache0,
              otherVars>>

\* A thread enters a call: let mut cache = self.cache.lock().unwrap()
ThreadLock(t, call) ==
  /\ t_pc[t] = "ready"
  /\ mutex_lock(owner)
  /\ owner' = t
  /\ t_call' = [t_call EXCEPT ![t] = call]
  /\ t_local' = [t_local EXCEPT ![t] = [NoLocals EXCEPT !.rest = call.vs]]
  /\ t_pc' = [t_pc EXCEPT ![t] = "locked"]
  /\ UNCHANGED <<cache, t_ret>>
  /\ OutsideThreads

\* The statement that looks before the cache is changed:
\* cache.contains(key) of insert_owned and insert, the partition of
\* try_get_many.
ThreadCheck(t) ==
  /\ t_pc[t] = "locked"
  /\ t_call[t].op \in {"insert_owned", "insert", "try_get_many"}
  /\ t_local' = [t_local EXCEPT ![t] =
       [@ EXCEPT !.present = LruContains(cache, t_call[t].key),
                 !.found = partition(cache, t_call[t].ks, TRUE),
                 !.not_found = partition(cache, t_call[t].ks, FALSE)]]
  /\ t_pc' = [t_pc EXCEPT ![t] = "checked"]
  /\ UNCHANGED <<cache, owner, t_call, t_ret>>
  /\ OutsideThreads

\* The call returns r.ret, leaving the cache as r.cache: the guard is
\* dropped.
ThreadReturns(t, r) ==
  /\ cache' = r.cache
  /\ t_ret' = [t_ret EXCEPT ![t] = r.ret]
  /\ t_pc' = [t_pc EXCEPT ![t] = "done"]
  /\ owner' = 0
  /\ UNCHANGED <<t_call, t_local>>
  /\ OutsideThreads

\* The branch of insert_owned and insert that follows the look.
ThreadInsert(t) ==
  /\ t_pc[t] = "checked"
  /\ t_call[t].op \in {"insert_owned", "insert"}
  /\ ThreadReturns(t,
       IF t_local[t].present
       THEN [cache |-> LruPromote(cache, t_call[t].key), ret |-> FALSE]
       ELSE [cache |-> LruPush(cache, t_call[t].key, t_call[t].value),
             ret |-> TRUE])

\* The map of try_get_many over the keys its partition found.
ThreadGetPairs(t) ==
  /\ t_pc[t] = "checked"
  /\ t_call[t].op = "try_get_many"
  /\ LET r == get_pairs(cache, t_local[t].found)
     IN ThreadReturns(t,
          [cache |-> r.cache,
           ret |-> [panic |-> r.panic, found |-> r.pairs,
                    not_found |-> t_local[t].not_found]])

\* A call whose body is one expression on the locked cache.
ThreadOneStep(t) ==
  /\ t_pc[t] = "locked"
  /\ t_call[t].op \in {"get", "remove", "contains", "keys",
                       "subtract_cached_items_from"}
  /\ ThreadReturns(t,
       CASE t_call[t].op = "get" ->
              [cache |-> LruGet(cache, t_call[t].key).cache,
               ret |-> LruGet(cache, t_call[t].key).value]
         [] t_call[t].op = "remove" ->
              [cache |-> LruPop(cache, t_call[t].key).cache,
               ret |-> LruPop(cache, t_call[t].key).value]
         [] t_call[t].op = "contains" ->
              [cache |-> cache, ret |-> LruContains(cache, t_call[t].key)]
         [] t_call[t].op = "keys" ->
              [cache |-> cache, ret |-> LruKeys(cache)]
         [] t_call[t].op = "subtract_cached_items_from" ->
              [cache |-> cache,
               ret |-> subtract_cached_items_from(cache, t_call[t].vs)])

\* One turn of the loop of insert_all.
ThreadInsertAllTurn(t) ==
  /\ t_pc[t] = "locked"
  /\ t_call[t].op = "insert_all"
  /\ t_local[t].rest # <<>>
  /\ cache' = insert_all_item(cache, Head(t_local[t].rest)).cache
  /\ t_local' = [t_local EXCEPT ![t].rest = Tail(@)]
  /\ UNCHANGED <<owner, t_pc, t_call, t_ret>>
  /\ OutsideThreads

\* insert_all returns when its loop is over.
ThreadInsertAllEnd(t) ==
  /\ t_pc[t] = "locked"
  /\ t_call[t].op = "insert_all"
  /\ t_local[t].rest = <<>>
  /\ ThreadReturns(t, [cache |-> cache, ret |-> None])

ThreadNext ==
  \/ \E t \in Threads, call \in ThreadCalls : ThreadLock(t, call)
  \/ \E t \in Threads : ThreadCheck(t)
  \/ \E t \in Threads : ThreadInsert(t)
  \/ \E t \in Threads : ThreadGetPairs(t)
  \/ \E t \in Threads : ThreadOneStep(t)
  \/ \E t \in Threads : ThreadInsertAllTurn(t)
  \/ \E t \in Threads : ThreadInsertAllEnd(t)

threadView == <<cache, threadVars>>

SpecThreads == ThreadInit /\ [][ThreadNext]_threadView

\* A call made alone on cache c.
Alone(c, call) ==
  CASE call.op = "insert_owned" -> insert_owned(c, call.key, call.value)
    [] call.op = "insert" -> insert(c, call.value)
    [] call.op = "get" -> get(c, call.key)
    [] call.op = "remove" -> remove(c, call.key)
    [] call.op = "contains" -> contains(c, call.key)
    [] call.op = "keys" -> [cache |-> c, ret |-> keys(c)]
    [] call.op = "subtract_cached_items_from" ->
         [cache |-> c, ret |-> subtract_cached_items_from(c, call.vs)]
    [] call.op = "try_get_many" -> try_get_many(c, call.ks)
    [] call.op = "insert_all" -> [cache |-> insert_all(c, call.vs), ret |-> None]

\* The threads' calls made one after the other, in the given order.
RECURSIVE OneAfterTheOther(_, _, _)
OneAfterTheOther(c, order, rets) ==
  IF order = <<>> THEN [cache |-> c, rets |-> rets]
  ELSE LET r == Alone(c, t_call[Head(order)])
       IN OneAfterTheOther(r.cache, Tail(order),
                           [rets EXCEPT ![Head(order)] = r.ret])

Orders ==
  {o \in [1..Cardinality(Threads) -> Threads] :
     \A i, j \in 1..Cardinality(Threads) : o[i] = o[j] => i = j}

InCall(t) == t_pc[t] \in {"locked", "checked"}

AllDone == \A t \in Threads : t_pc[t] = "done"

\* C13: whatever the interleaving, at most one thread is inside a call,
\* which is the thread holding the guard, and when the calls have
\* returned, their results and the cache are those of the same calls made
\* one after the other in some order.
C13_CallsAreAtomic ==
  /\ \A t, u \in Threads : (InCall(t) /\ InCall(u)) => t = u
  /\ \A t \in Threads : InCall(t) <=> owner = t
  /\ AllDone =>
       \E o \in Orders :
         LET s == OneAfterTheOther(cache0, o, [t \in Threads |-> None])
         IN /\ s.cache = cache
            /\ \A t \in Threads : s.rets[t] = t_ret[t]

\* Two threads inserted the same absent key into a full cache: one was
\* told TRUE and the other FALSE, and the other order of the two calls
\* would not have left the stored value.
C13_Witness ==
  /\ AllDone
  /\ t_call[1].op = "insert_owned"
  /\ t_call[2].op = "insert_owned"
  /\ t_call[1].key = t_call[2].key
  /\ t_call[1].value # t_call[2].value
  /\ ~LruContains(cache0, t_call[1].key)
  /\ Len(cache0.items) = cache0.cap
  /\ t_ret[1] = FALSE
  /\ t_ret[2] = TRUE
  /\ LruPeek(cache, t_call[1].key) = Some(t_call[2].value)

----------------------------------------------------------------------------
(* The journaling layer over the DynamoDB adapter                          *)
(* (JournalingKeyValueDatabase<DynamoDbDatabaseInternal>).  A batch is     *)
(* written as a journal record, then as sub-transactions of at most        *)
(* JournalBlock items, each one atomic write_batch of the adapter, then    *)
(* the journal record is deleted.  A request on a root key whose journal   *)
(* record is present replays it first.  One request is served at a time;   *)
(* it can be cut short at any step, which loses the request and keeps the  *)
(* table and the journal record.                                           *)

\* The items of one sub-transaction.
JournalBlock == 1

RootKeys == {"r", "s"}

\* The root keys whose requests are cut short; the requests on the
\* others run to their end.
CutRootKeys == {"r"}

JKeyOrder == <<"x", "y">>

JKeys == {JKeyOrder[i] : i \in 1..Len(JKeyOrder)}

JValues == {1}

\* A batch gives each key -1 (untouched), 0 (deleted) or the value put.
Batches == [JKeys -> {-1, 0} \cup JValues]

NoBatch == [k \in JKeys |-> -1]

\* Batch::deletions or Batch::insertions, in key order
RECURSIVE BatchItems(_, _, _)
BatchItems(b, ks, deletions) ==
  IF ks = <<>> THEN <<>>
  ELSE (IF b[Head(ks)] # -1 /\ (b[Head(ks)] = 0) = deletions
        THEN <<[value |-> b[Head(ks)], key |-> Head(ks)]>>
        ELSE <<>>) \o BatchItems(b, Tail(ks), deletions)

\* The requests of a batch in the order write_batch builds them: the
\* deletions, then the insertions.
Requests(b) == BatchItems(b, JKeyOrder, TRUE) \o BatchItems(b, JKeyOrder, FALSE)

delete_item_kept(table, key) == table

\* build_delete_transaction: the item under the key is gone
delete_item(table, key) == [table EXCEPT ![key] = 0]

put_item_lost(table, key, value) == table

\* build_put_transaction: the item under the key holds the value
put_item(table, key, value) == [table EXCEPT ![key] = value]

\* The transaction write_batch sends (transact_write_items with the
\* builder's requests): every request takes effect, or none.
RECURSIVE transact_write_items(_, _)
transact_write_items(table, items) ==
  IF items = <<>> THEN table
  ELSE transact_write_items(
         IF Head(items).value = 0
         THEN delete_item(table, Head(items).key)
         ELSE put_item(table, Head(items).key, Head(items).value),
         Tail(items))

\* The sub-transactions of a batch: its requests, JournalBlock at a time.
Blocks(b) == (Len(Requests(b)) + JournalBlock - 1) \div JournalBlock

Block(b, i) ==
  SubSeq(Requests(b), (i - 1) * JournalBlock + 1,
         IF i * JournalBlock < Len(Requests(b))
         THEN i * JournalBlock ELSE Len(Requests(b)))

all_blocks_done_early(b, next) == next >= Blocks(b)

\* Whether every sub-transaction of the batch has succeeded, `next` being
\* the one to send next.
all_blocks_done(b, next) == next > Blocks(b)

needs_replay_never(journal) == FALSE

\* Whether a request must replay the journal before it is served.
needs_replay(journal) == journal.present

NoJournal == [present |-> FALSE, batch |-> NoBatch]

Idle ==
  [key |-> "x", next |-> 0, batch |-> NoBatch, root |-> "r",
   phase |-> "idle", kind |-> "none", torn |-> FALSE]

\* What a step did: on which root key, for the request on which key,
\* during which phase of the request, and the value or count it gives.
Event(name, root, key, value) ==
  [value |-> value, key |-> key, name |-> name, root |-> root,
   during |-> j_task.phase]

\* The table with the whole batch applied.
Overlay(table, b) == [k \in JKeys |-> IF b[k] = -1 THEN table[k] ELSE b[k]]

JournalInit ==
  /\ j_store = [root \in RootKeys |-> [k \in JKeys |-> 0]]
  /\ j_journal = [root \in RootKeys |-> NoJournal]
  /\ j_task = Idle
  /\ j_event = Event("open", "r", "x", 0)
  /\ j_before = [root \in RootKeys |-> [k \in JKeys |-> 0]]
  /\ j_expect = [root \in RootKeys |-> [k \in JKeys |-> 0]]
  /\ CacheUnused
  /\ SplitUnused
  /\ AdapterUnused
  /\ DynamoUnused
  /\ ServiceUnused

OutsideJournal ==
  UNCHANGED <<cacheVars, splitVars, adapterVars, dynamoVars,
            serviceVars>>

\* A read or a write_batch is called on a root key.
JournalBegin(root, kind, key, b) ==
  /\ j_task.phase = "idle"
  /\ j_task' = [key |-> key,
                next |-> 1,
                batch |-> b,
                root |-> root,
                phase |-> IF needs_replay(j_journal[root])
                          THEN "replay" ELSE "serve",
                kind |-> kind,
                torn |-> j_store[root] \notin {j_before[root], j_expect[root]}]
  /\ j_event' = Event("begin", root, key, 0)
  /\ UNCHANGED <<j_store, j_journal, j_before, j_expect>>
  /\ OutsideJournal

\* The next sub-transaction of the journal record is sent again.
JournalReplayBlock ==
  LET root == j_task.root
      b == j_journal[root].batch
  IN /\ j_task.phase = "replay"
     /\ ~all_blocks_done(b, j_task.next)
     /\ j_store' = [j_store EXCEPT ![root] =
                      transact_write_items(@, Block(b, j_task.next))]
     /\ j_task' = [j_task EXCEPT !.next = @ + 1]
     /\ j_event' = Event("replayed", root, j_task.key, j_task.next)
     /\ UNCHANGED <<j_journal, j_before, j_expect>>
     /\ OutsideJournal

\* The replay is over: the journal record is deleted and the request served.
JournalReplayDone ==
  LET root == j_task.root
  IN /\ j_task.phase = "replay"
     /\ all_blocks_done(j_journal[root].batch, j_task.next)
     /\ j_journal' = [j_journal EXCEPT ![root] = NoJournal]
     /\ j_task' = [j_task EXCEPT !.phase = "serve", !.next = 1]
     /\ j_event' = Event("recovered", root, j_task.key,
                         IF j_task.torn THEN 1 ELSE 0)
     /\ j_before' = [j_before EXCEPT ![root] = j_store[root]]
     /\ UNCHANGED <<j_store, j_expect>>
     /\ OutsideJournal

\* The replay cannot reach the backend: the request fails with
\* JournalConsistencyError.
JournalReplayFails ==
  /\ j_task.phase = "replay"
  /\ j_task' = Idle
  /\ j_event' = Event("JournalConsistencyError", j_task.root, j_task.key,
                      j_task.next - 1)
  /\ UNCHANGED <<j_store, j_journal, j_before, j_expect>>
  /\ OutsideJournal

\* A read returns what the table holds.
JournalRead ==
  /\ j_task.phase = "serve"
  /\ j_task.kind = "read"
  /\ j_task' = Idle
  /\ j_event' = Event("read", j_task.root, j_task.key,
                      j_store[j_task.root][j_task.key])
  /\ UNCHANGED <<j_store, j_journal, j_before, j_expect>>
  /\ OutsideJournal

\* A write_batch persists the journal record of its batch.
JournalPersist ==
  LET root == j_task.root
  IN /\ j_task.phase = "serve"
     /\ j_task.kind = "write"
     /\ j_journal' = [j_journal EXCEPT ![root] =
                        [present |-> TRUE, batch |-> j_task.batch]]
     /\ j_task' = [j_task EXCEPT !.phase = "write", !.next = 1]
     /\ j_event' = Event("journaled", root, j_task.key, 0)
     /\ j_before' = [j_before EXCEPT ![root] = j_store[root]]
     /\ j_expect' = [j_expect EXCEPT ![root] = Overlay(j_store[root], j_task.batch)]
     /\ UNCHANGED j_store
     /\ OutsideJournal

\* The next sub-transaction of the batch is sent.
JournalWriteBlock ==
  LET root == j_task.root
  IN /\ j_task.phase = "write"
     /\ ~all_blocks_done(j_task.batch, j_task.next)
     /\ j_store' = [j_store EXCEPT ![root] =
                      transact_write_items(@, Block(j_task.batch, j_task.next))]
     /\ j_task' = [j_task EXCEPT !.next = @ + 1]
     /\ j_event' = Event("block", root, j_task.key, j_task.next)
     /\ UNCHANGED <<j_journal, j_before, j_expect>>
     /\ OutsideJournal

\* Every sub-transaction succeeded: the journal record is deleted and
\* write_batch returns.
JournalWriteDone ==
  LET root == j_task.root
  IN /\ j_task.phase = "write"
     /\ all_blocks_done(j_task.batch, j_task.next)
     /\ j_journal' = [j_journal EXCEPT ![root] = NoJournal]
     /\ j_task' = Idle
     /\ j_event' = Event("written", root, j_task.key, 0)
     /\ j_before' = [j_before EXCEPT ![root] = j_store[root]]
     /\ UNCHANGED <<j_store, j_expect>>
     /\ OutsideJournal

\* The request is cut short after its journal record was persisted: the
\* next sub-transaction fails, the process crashes, or the caller cancels.
JournalCut(why) ==
  /\ j_task.phase \in {"write", "replay"}
  /\ j_task.root \in CutRootKeys
  /\ j_task' = Idle
  /\ j_event' = Event(why, j_task.root, j_task.key, j_task.next - 1)
  /\ UNCHANGED <<j_store, j_journal, j_before, j_expect>>
  /\ OutsideJournal

JournalNext ==
  \/ \E root \in RootKeys, k \in JKeys : JournalBegin(root, "read", k, NoBatch)
  \/ \E root \in RootKeys, b \in Batches : JournalBegin(root, "write", "x", b)
  \/ JournalReplayBlock
  \/ JournalReplayDone
  \/ JournalReplayFails
  \/ JournalRead
  \/ JournalPersist
  \/ JournalWriteBlock
  \/ JournalWriteDone
  \/ \E why \in {"failed", "crashed", "cancelled"} : JournalCut(why)

SpecJournal == JournalInit /\ [][JournalNext]_journalVars

\* A root key's table is torn: part of its last batch is applied.
Torn(root) == j_store[root] \notin {j_before[root], j_expect[root]}

\* C14: when a write of a batch of more requests than a sub-transaction
\* takes is cut short after any number of sub-transactions and the journal
\* is then replayed, the table is what the whole batch makes of it; a read
\* returns the value of that table, never one of a batch applied in part.
C14_RecoveryCompletesBatch ==
  /\ \A root \in RootKeys :
       ~j_journal[root].present => j_store[root] = j_expect[root]
  /\ j_event.name = "read" =>
       j_event.value = j_expect[j_event.root][j_event.key]

\* A read found the table torn, with a journal record, and the replay has
\* made it whole.
C14_Witness ==
  /\ j_event.name = "recovered"
  /\ j_event.value = 1
  /\ j_task.kind = "read"
  /\ j_store[j_event.root] = j_expect[j_event.root]
  /\ ~j_journal[j_event.root].present

\* C15: the table of a root key changes only while its journal record is
\* present, by the sub-transaction that is next in the batch's order; the
\* journal record is deleted only when every sub-transaction has succeeded,
\* the table then holding the whole batch, also when the replay itself was
\* cut short and started again.
C15_JournalBracketsWrites ==
  [][ \A root \in RootKeys :
        /\ j_store'[root] # j_store[root] =>
             /\ j_journal[root].present
             /\ j_journal'[root] = j_journal[root]
             /\ j_task.root = root
             /\ j_event'.value = j_task.next
             /\ j_task'.next = j_task.next + 1
             /\ j_store'[root] =
                  transact_write_items(j_store[root],
                                       Block(j_journal[root].batch, j_task.next))
        /\ (j_journal[root].present /\ ~j_journal'[root].present) =>
             /\ j_task.next = Blocks(j_journal[root].batch) + 1
             /\ j_store[root] = j_expect[root]
             /\ j_store'[root] = j_store[root]
    ]_journalVars

\* A replay was cut short by a crash after it had sent a sub-transaction
\* again, the table being torn when it started.
C15_Witness ==
  /\ j_event.name = "crashed"
  /\ j_event.during = "replay"
  /\ j_event.value >= 1
  /\ j_journal[j_event.root].present
  /\ j_before[j_event.root] # j_expect[j_event.root]

\* C16: a read returns, and a write persists its journal record, on a root
\* key only when no journal record of that root key is left to replay; a
\* step changes the table and the journal record of its own root key only;
\* a replay that cannot reach the backend ends the request with
\* JournalConsistencyError, giving no value and leaving the table and the
\* journal record as they were.
C16_ReplayBeforeServing ==
  [][ /\ j_event'.name \in {"read", "journaled"} =>
           ~j_journal[j_event'.root].present
      /\ j_event'.name \in {"read", "written"} =>
           ~j_journal'[j_event'.root].present
      /\ \A root \in RootKeys :
           (j_store'[root] # j_store[root] \/ j_journal'[root] # j_journal[root])
             => root = j_event'.root
      /\ j_event'.name = "JournalConsistencyError" =>
           /\ j_journal'[j_event'.root].present
           /\ j_journal' = j_journal
           /\ j_store' = j_store
           /\ j_task'.phase = "idle"
    ]_journalVars

\* A write on one root key has returned while the journal record of the
\* other root key is waiting for its replay, the last request on that one
\* having left its table torn.
C16_Witness ==
  /\ j_event.name = "written"
  /\ j_event.root = "s"
  /\ j_journal["r"].present
  /\ Torn("r")
  /\ j_store["s"] # [k \in JKeys |-> 0]

\* C17: a write cancelled after its journal record was persisted leaves
\* the journal record of its batch in place, and replaying that record on
\* the table gives the table of the whole batch; a torn table without a
\* journal record is never reached.
C17_CancelLeavesRecoverable ==
  [][ /\ j_event'.name = "cancelled" =>
           LET root == j_event'.root
           IN /\ j_journal'[root].present
              /\ j_store'[root] = j_store[root]
              /\ transact_write_items(j_store'[root],
                                      Requests(j_journal'[root].batch))
                   = j_expect'[root]
      /\ \A root \in RootKeys : Torn(root)' => j_journal'[root].present
    ]_journalVars

\* A write was cancelled between its two sub-transactions.
C17_Witness ==
  /\ j_event.name = "cancelled"
  /\ j_event.during = "write"
  /\ j_event.value = 1
  /\ Torn(j_event.root)
  /\ j_journal[j_event.root].present

----------------------------------------------------------------------------
(* The value-splitting layer (ValueSplittingDatabase) for one key.  A      *)
(* value within the cap is one physical record holding it verbatim.  A     *)
(* longer value is an envelope record (part count, total length) under     *)
(* part index 0 and its parts under the part indices 1, 2, ..., each put   *)
(* on its own; a crash between two puts loses the write and keeps the      *)
(* records put so far, over those of the value the key held before.        *)

\* The bytes one physical record can hold (RAW_MAX_VALUE_SIZE, scaled).
SplitCap == 2

\* The bytes of the longest value written.
MaxValueLen == 5

\* The values written: n bytes counting up from 0 or from 1, so that no
\* two parts of a value are alike.
SplitValues ==
  {[i \in 1..n |-> first + i] : first \in {0, 1}, n \in 0..MaxValueLen}

MaxParts == (MaxValueLen + SplitCap - 1) \div SplitCap

Absent == [kind |-> "absent", count |-> 0, total |-> 0, data |-> <<>>]

Plain(v) == [kind |-> "plain", count |-> 0, total |-> 0, data |-> v]

Envelope(n, len) == [kind |-> "envelope", count |-> n, total |-> len, data |-> <<>>]

Part(v) == [kind |-> "part", count |-> 0, total |-> 0, data |-> v]

needs_split_never(v) == FALSE

\* Whether a value cannot fit one physical record.
needs_split(v) == Len(v) > SplitCap

\* The number of parts of a value that is split.
part_count(v) == (Len(v) + SplitCap - 1) \div SplitCap

\* The i-th part of a value that is split.
part_data(v, i) ==
  SubSeq(v, (i - 1) * SplitCap + 1,
         IF i * SplitCap < Len(v) THEN i * SplitCap ELSE Len(v))

\* The physical records of a value, by part index from 0.
Records(v) ==
  IF needs_split(v)
  THEN <<Envelope(part_count(v), Len(v))>>
         \o [i \in 1..part_count(v) |-> Part(part_data(v, i))]
  ELSE <<Plain(v)>>

\* The parts 1..n of the records, concatenated; an absent part adds nothing.
RECURSIVE Concatenated(_, _)
Concatenated(phys, n) ==
  IF n = 0 THEN <<>> ELSE Concatenated(phys, n - 1) \o phys[n].data

Result(status, data) == [data |-> data, status |-> status]

envelope_valid_always(phys) == TRUE

\* The validation of the envelope against the parts fetched: every part is
\* there and together they have the total length.
envelope_valid(phys) ==
  /\ phys[0].count <= MaxParts
  /\ \A i \in 1..phys[0].count : phys[i].kind = "part"
  /\ Len(Concatenated(phys, phys[0].count)) = phys[0].total

\* The read of the key: no record, the value verbatim, or the parts
\* reassembled.
split_read(phys) ==
  CASE phys[0].kind = "absent" -> Result("absent", <<>>)
    [] phys[0].kind = "plain" -> Result("value", phys[0].data)
    [] phys[0].kind = "envelope" ->
         IF envelope_valid(phys)
         THEN Result("value",
                     Concatenated(phys, IF phys[0].count <= MaxParts
                                        THEN phys[0].count ELSE MaxParts))
         ELSE Result("ConsistencyError", <<>>)

SplitIdle == [value |-> <<>>, next |-> 0, busy |-> FALSE]

SplitEvent(name, r) == [name |-> name, data |-> r.data, status |-> r.status]

SplitInit ==
  /\ s_phys = [i \in 0..MaxParts |-> Absent]
  /\ s_task = SplitIdle
  /\ s_event = SplitEvent("open", Result("absent", <<>>))
  /\ s_latest = Result("absent", <<>>)
  /\ CacheUnused
  /\ JournalUnused
  /\ AdapterUnused
  /\ DynamoUnused
  /\ ServiceUnused

OutsideSplit ==
  UNCHANGED <<cacheVars, journalVars, adapterVars, dynamoVars,
            serviceVars>>

\* write(key, v) is called.
SplitWrite(v) ==
  /\ ~s_task.busy
  /\ s_task' = [value |-> v, next |-> 0, busy |-> TRUE]
  /\ s_event' = SplitEvent("write", Result("value", v))
  /\ UNCHANGED <<s_phys, s_latest>>
  /\ OutsideSplit

\* The next physical record of the value is put.  With its last record
\* the value is there in full; before, the records are those of two writes.
SplitPut ==
  /\ s_task.busy
  /\ s_task.next < Len(Records(s_task.value))
  /\ s_phys' = [s_phys EXCEPT ![s_task.next] = Records(s_task.value)[s_task.next + 1]]
  /\ s_task' = [s_task EXCEPT !.next = @ + 1]
  /\ s_event' = SplitEvent("put", Result("value", s_task.value))
  /\ s_latest' = IF s_task.next + 1 = Len(Records(s_task.value))
                 THEN Result("value", s_task.value)
                 ELSE Result("torn", s_latest.data)
  /\ OutsideSplit

\* Every record is put: the write returns.
SplitWritten ==
  /\ s_task.busy
  /\ s_task.next = Len(Records(s_task.value))
  /\ s_task' = [s_task EXCEPT !.busy = FALSE]
  /\ s_event' = SplitEvent("written", Result("value", s_task.value))
  /\ s_latest' = Result("value", s_task.value)
  /\ UNCHANGED s_phys
  /\ OutsideSplit

\* The process crashes in the middle of a write: the write is cut short.
SplitCrash ==
  /\ s_task.busy
  /\ s_task' = [s_task EXCEPT !.busy = FALSE]
  /\ s_event' = SplitEvent("crashed", Result("value", s_task.value))
  /\ UNCHANGED <<s_phys, s_latest>>
  /\ OutsideSplit

\* read(key) is called and returns.
SplitRead ==
  /\ ~s_task.busy
  /\ s_event' = SplitEvent("read", split_read(s_phys))
  /\ UNCHANGED <<s_phys, s_task, s_latest>>
  /\ OutsideSplit

SplitNext ==
  \/ \E v \in SplitValues : SplitWrite(v)
  \/ SplitPut
  \/ SplitWritten
  \/ SplitCrash
  \/ SplitRead

SpecSplit == SplitInit /\ [][SplitNext]_splitVars

\* The physical records in use for the value the records hold.
InUse(phys) == {0} \cup (IF phys[0].kind = "envelope" THEN 1..phys[0].count ELSE {})

\* C18: a read after a write that returned gives exactly the value
\* written, whether its length is below, at or above the cap and whatever
\* shorter or longer value the key held before; a value above the cap is
\* held as several physical records, and no record holds more bytes than
\* the cap.
C18_SplitRoundTrip ==
  [][ /\ (s_event'.name = "read" /\ s_latest.status = "value") =>
           (s_event'.status = "value" /\ s_event'.data = s_latest.data)
      /\ s_event'.name = "written" =>
           /\ split_read(s_phys') = Result("value", s_event'.data)
           /\ Len(s_event'.data) > SplitCap =>
                Cardinality(InUse(s_phys')) > 1
           /\ Len(s_event'.data) <= SplitCap =>
                s_phys'[0] = Plain(s_event'.data)
      /\ \A i \in 0..MaxParts : Len(s_phys'[i].data) <= SplitCap
    ]_splitVars

\* A read returned a value above the cap that was written over a longer
\* one, whose last part is still there.
C18_Witness ==
  /\ s_event.name = "read"
  /\ s_event.status = "value"
  /\ Len(s_event.data) > SplitCap
  /\ s_event.data = s_latest.data
  /\ s_phys[0].kind = "envelope"
  /\ s_phys[0].count < MaxParts
  /\ s_phys[MaxParts].kind = "part"

\* A write was cut short before its last record and nothing was put in
\* full since: the records are those of more than one write.
SplitTorn == s_latest.status = "torn"

\* C19, as the claim states it: a read of a split value of which a part
\* is missing, or whose parts are shorter than the total length of the
\* envelope, returns a consistency error; and a value that a read returns
\* is a value that was stored: the one last put in full or, after a write
\* was cut short, the value of that write, never a shortened one or one
\* put together from the parts of two values.
C19_TornValueIsAnError ==
  [][ s_event'.name = "read" =>
        /\ (s_phys[0].kind = "envelope"
            /\ ((\E i \in 1..s_phys[0].count : s_phys[i].kind # "part")
                \/ Len(Concatenated(s_phys, s_phys[0].count)) < s_phys[0].total))
             => s_event'.status = "ConsistencyError"
        /\ s_event'.status = "value" =>
             s_event'.data \in {s_latest.data} \cup
                                (IF SplitTorn THEN {s_task.value} ELSE {})
    ]_splitVars

\* After a write of five bytes, a write of four other bytes was cut short
\* by a crash with every part of its envelope still there from the longer
\* value: the read returned four bytes that are neither value.
C19_Witness ==
  /\ s_event.name = "read"
  /\ s_event.status = "value"
  /\ SplitTorn
  /\ Len(s_latest.data) = 5
  /\ Len(s_task.value) = 4
  /\ ~s_task.busy
  /\ s_phys[0] = Envelope(2, 4)
  /\ s_event.data \notin {s_latest.data, s_task.value}

----------------------------------------------------------------------------
(* The DynamoDB adapter (DynamoDbStoreInternal): its size checks and the   *)
(* requests its calls send to the backend.  A key is given by its length   *)
(* in bytes, a value by its length in bytes.                               *)

MAX_KEY_SIZE == 1024

RAW_MAX_VALUE_SIZE == 409600

\* common::get_uleb128_size: the bytes of the ULEB128 encoding of a length,
\* seven bits to the byte
RECURSIVE get_uleb128_size(_)
get_uleb128_size(len) ==
  IF len < 128 THEN 1 ELSE 1 + get_uleb128_size(len \div 128)

\* The raw size less the key alone, with nothing left for the prefixes.
VISIBLE_MAX_VALUE_SIZE_without_prefixes == RAW_MAX_VALUE_SIZE - MAX_KEY_SIZE

\* The largest value the adapter declares to the layers above it: what a
\* batch of one entry with the largest key leaves of the raw size.
VISIBLE_MAX_VALUE_SIZE ==
  RAW_MAX_VALUE_SIZE
    - MAX_KEY_SIZE
    - get_uleb128_size(RAW_MAX_VALUE_SIZE)
    - get_uleb128_size(MAX_KEY_SIZE)
    - 1
    - 1

\* The key_list and prefixes of a bulk call, the deletions and the insertions
\* of a batch: at most this many each.
AdapterBatch == 1

KeyLens == {0, 1, MAX_KEY_SIZE, MAX_KEY_SIZE + 1}

ValueLens == {0, RAW_MAX_VALUE_SIZE, RAW_MAX_VALUE_SIZE + 1}

ValidKeyLens == {k \in KeyLens : k >= 1 /\ k <= MAX_KEY_SIZE}

Puts == [value : ValueLens, key : KeyLens]

\* check_key_size, had it let a key of MAX_KEY_SIZE + 1 bytes through
check_key_size_lenient(key) ==
  IF key = 0 THEN "ZeroLengthKey"
  ELSE IF key > MAX_KEY_SIZE + 1 THEN "KeyTooLong"
  ELSE "Ok"

\* check_key_size
check_key_size(key) ==
  IF key = 0 THEN "ZeroLengthKey"
  ELSE IF key > MAX_KEY_SIZE THEN "KeyTooLong"
  ELSE "Ok"

\* build_delete_transaction, as far as it can fail
build_delete_transaction(key) == check_key_size(key)

\* build_put_transaction, had it held the value to the size the store
\* declares
build_put_transaction_visible(key, value) ==
  IF check_key_size(key) # "Ok" THEN check_key_size(key)
  ELSE IF value > VISIBLE_MAX_VALUE_SIZE THEN "ValueLengthTooLarge"
  ELSE "Ok"

\* build_put_transaction, as far as it can fail
build_put_transaction(key, value) ==
  IF check_key_size(key) # "Ok" THEN check_key_size(key)
  ELSE IF value > RAW_MAX_VALUE_SIZE THEN "ValueLengthTooLarge"
  ELSE "Ok"

\* The first result of a list that is not Ok: where `?` returns.
RECURSIVE FirstError(_)
FirstError(results) ==
  IF results = <<>> THEN "Ok"
  ELSE IF Head(results) # "Ok" THEN Head(results)
  ELSE FirstError(Tail(results))

\* The builder of write_batch: the deletions, then the insertions.
BuilderResult(deletions, insertions) ==
  FirstError([i \in 1..Len(deletions) |-> build_delete_transaction(deletions[i])]
             \o [i \in 1..Len(insertions) |->
                   build_put_transaction(insertions[i].key, insertions[i].value)])

\* The table after the transaction of a batch.
RECURSIVE Deleted(_, _)
Deleted(table, deletions) ==
  IF deletions = <<>> THEN table
  ELSE Deleted([table EXCEPT ![Head(deletions)] = -1], Tail(deletions))

RECURSIVE Inserted(_, _)
Inserted(table, insertions) ==
  IF insertions = <<>> THEN table
  ELSE Inserted([table EXCEPT ![Head(insertions).key] = Head(insertions).value],
                Tail(insertions))

\* A call involves a key that is empty or longer than MAX_KEY_SIZE.
BadKey(key_list) == \E i \in 1..Len(key_list) : key_list[i] = 0 \/ key_list[i] > MAX_KEY_SIZE

\* The handle of the store and its clone, which share root_key_written.
Callers == {"handle", "clone"}

\* The lengths of the start key of the store: EMPTY_ROOT_KEY and the root
\* key.
StartKeyLens == {MAX_KEY_SIZE, MAX_KEY_SIZE + 1}

AdapterEvent(name, fresh, bad, result, sent) ==
  [name |-> name, fresh |-> fresh, bad |-> bad, result |-> result, sent |-> sent]

\* What write_batch returned: the batch it was called with, whether it was
\* the call that set root_key_written, and the requests it sent.
WriteEvent(name, fresh, deletions, insertions, result, sent) ==
  [name |-> name, deletions |-> deletions, insertions |-> insertions,
   fresh |-> fresh,
   bad |-> BadKey(deletions \o [i \in 1..Len(insertions) |-> insertions[i].key]),
   result |-> result, sent |-> sent]

\* No call has returned that the caller has not taken the result of.
WriteIdle == WriteEvent("idle", FALSE, <<>>, <<>>, "Ok", <<>>)

\* The queries one scan may take.
AdapterPages == 2

\* A call that waits for the answer to a request.
AdapterCall(name, deletions, insertions, key_list, fresh, sent, pc, failed, left) ==
  [name |-> name, deletions |-> deletions, insertions |-> insertions,
   key_list |-> key_list, fresh |-> fresh, sent |-> sent, pc |-> pc,
   failed |-> failed, left |-> left]

\* A write_batch that waits for the answer to a request: its batch, whether
\* it set root_key_written, and the request it waits for.
WriteCall(deletions, insertions, fresh, pc) ==
  AdapterCall("write_batch", deletions, insertions, <<>>, fresh, <<>>, pc,
              FALSE, 0)

\* A read that waits for the backend: its keys or its prefix, the requests
\* it sent, whether one of them failed, and the answers it waits for.
ReadCall(name, key_list, sent, pc, failed, left) ==
  AdapterCall(name, <<>>, <<>>, key_list, FALSE, sent, pc, failed, left)

\* No call of the caller is under way.
CallIdle == AdapterCall("idle", <<>>, <<>>, <<>>, FALSE, <<>>, "idle", FALSE, 0)

\* open_internal: a store handle whose root key is not yet registered
AdapterInit ==
  /\ a_written = FALSE
  /\ a_table = [k \in ValidKeyLens |-> -1]
  /\ a_event = AdapterEvent("open", TRUE, FALSE, "Ok", <<>>)
  /\ a_start \in StartKeyLens
  /\ a_call = [task \in Callers |-> CallIdle]
  /\ CacheUnused
  /\ JournalUnused
  /\ SplitUnused
  /\ DynamoUnused
  /\ ServiceUnused

OutsideAdapter ==
  UNCHANGED <<cacheVars, journalVars, splitVars, dynamoVars,
            serviceVars>>

\* The caller takes the result of the call that returned; the next step of
\* any call comes after.
AdapterReturned ==
  /\ a_event # WriteIdle
  /\ a_event' = WriteIdle
  /\ UNCHANGED <<a_written, a_table, a_start, a_call>>
  /\ OutsideAdapter

\* The store of the root key is opened again, over the same table, when no
\* call of the handle before is under way.
AdapterOpen ==
  /\ a_event = WriteIdle
  /\ \A task \in Callers : a_call[task] = CallIdle
  /\ a_written' = FALSE
  /\ a_event' = AdapterEvent("open", TRUE, FALSE, "Ok", <<>>)
  /\ UNCHANGED <<a_table, a_start, a_call>>
  /\ OutsideAdapter

\* read_value_bytes and contains_key: the key is checked, then one request
\* is sent and the call waits for the answer.
AdapterReadOne(task, name, key) ==
  /\ a_event = WriteIdle
  /\ a_call[task] = CallIdle
  /\ IF check_key_size(key) # "Ok"
     THEN /\ a_event' = AdapterEvent(name, ~a_written, BadKey(<<key>>),
                                     check_key_size(key), <<>>)
          /\ UNCHANGED a_call
     ELSE /\ a_call' = [a_call EXCEPT
                          ![task] = ReadCall(name, <<key>>, <<"get_item">>,
                                             "reading", FALSE, 1)]
          /\ UNCHANGED a_event
  /\ UNCHANGED <<a_written, a_table, a_start>>
  /\ OutsideAdapter

\* contains_keys and read_multi_values_bytes: every key is checked while
\* the requests are prepared, and `?` returns the first error; join_all
\* then sends one request per key and waits for every answer.  With no
\* key it returns at once.
AdapterReadMany(task, name, key_list) ==
  LET result == FirstError([i \in 1..Len(key_list) |-> check_key_size(key_list[i])])
  IN /\ a_event = WriteIdle
     /\ a_call[task] = CallIdle
     /\ IF result # "Ok" \/ key_list = <<>>
        THEN /\ a_event' = AdapterEvent(name, ~a_written, BadKey(key_list),
                                        result, <<>>)
             /\ UNCHANGED a_call
        ELSE /\ a_call' = [a_call EXCEPT
                             ![task] = ReadCall(name, key_list,
                                                [i \in 1..Len(key_list) |-> "get_item"],
                                                "reading", FALSE, Len(key_list))]
             /\ UNCHANGED a_event
     /\ UNCHANGED <<a_written, a_table, a_start>>
     /\ OutsideAdapter

\* A get_item of a read is answered, with the item or with an error.  The
\* call returns after the last answer: Get if a request failed.
AdapterAnswered(task, failed) ==
  /\ a_event = WriteIdle
  /\ a_call[task].pc = "reading"
  /\ IF a_call[task].left = 1
     THEN /\ a_call' = [a_call EXCEPT ![task] = CallIdle]
          /\ a_event' = AdapterEvent(a_call[task].name, ~a_written, FALSE,
                                     IF a_call[task].failed \/ failed
                                     THEN "Get" ELSE "Ok",
                                     a_call[task].sent)
     ELSE /\ a_call' = [a_call EXCEPT
                          ![task] = ReadCall(a_call[task].name,
                                             a_call[task].key_list,
                                             a_call[task].sent, "reading",
                                             a_call[task].failed \/ failed,
                                             a_call[task].left - 1)]
          /\ UNCHANGED a_event
  /\ UNCHANGED <<a_written, a_table, a_start>>
  /\ OutsideAdapter

\* find_keys_by_prefix and find_key_values_by_prefix: get_list_responses
\* checks the prefix, then sends its first query and waits for the page.
AdapterFind(task, name, prefix) ==
  /\ a_event = WriteIdle
  /\ a_call[task] = CallIdle
  /\ IF check_key_size(prefix) # "Ok"
     THEN /\ a_event' = AdapterEvent(name, ~a_written, BadKey(<<prefix>>),
                                     check_key_size(prefix), <<>>)
          /\ UNCHANGED a_call
     ELSE /\ a_call' = [a_call EXCEPT
                          ![task] = ReadCall(name, <<prefix>>, <<"query">>,
                                             "querying", FALSE, 1)]
          /\ UNCHANGED a_event
  /\ UNCHANGED <<a_written, a_table, a_start>>
  /\ OutsideAdapter

\* A query of get_list_responses is answered: with an error, which the
\* call returns; with a page that carries a last_evaluated_key, after
\* which the next query is sent; or with the last page, and the call
\* returns.
AdapterQueried(task, failed, more) ==
  /\ a_event = WriteIdle
  /\ a_call[task].pc = "querying"
  /\ more => (~failed /\ Len(a_call[task].sent) < AdapterPages)
  /\ IF more
     THEN /\ a_call' = [a_call EXCEPT
                          ![task] = ReadCall(a_call[task].name,
                                             a_call[task].key_list,
                                             Append(a_call[task].sent, "query"),
                                             "querying", FALSE, 1)]
          /\ UNCHANGED a_event
     ELSE /\ a_call' = [a_call EXCEPT ![task] = CallIdle]
          /\ a_event' = AdapterEvent(a_call[task].name, ~a_written, FALSE,
                                     IF failed THEN "Query" ELSE "Ok",
                                     a_call[task].sent)
  /\ UNCHANGED <<a_written, a_table, a_start>>
  /\ OutsideAdapter

\* The requests a write_batch has sent: the one that registers the root
\* key, if the call set root_key_written and its start key passed the
\* check, and the transaction of the batch.
SentRequests(registered, transacted) ==
  (IF registered THEN <<"transact_write_items">> ELSE <<>>)
    \o (IF transacted THEN <<"transact_write_items">> ELSE <<>>)

\* write_batch from its builder on: the deletions and the insertions are
\* checked, `?` returns the first error; a transaction with requests is
\* sent and the call waits for the answer, an empty one returns Ok.
AdapterBuilds(task, deletions, insertions, fresh) ==
  IF /\ BuilderResult(deletions, insertions) = "Ok"
     /\ Len(deletions) + Len(insertions) > 0
  THEN /\ a_call' = [a_call EXCEPT
                       ![task] = WriteCall(deletions, insertions, fresh, "sending")]
       /\ UNCHANGED a_event
  ELSE /\ a_call' = [a_call EXCEPT ![task] = CallIdle]
       /\ a_event' = WriteEvent("write_batch", fresh, deletions, insertions,
                                BuilderResult(deletions, insertions),
                                SentRequests(fresh, FALSE))

\* write_batch is called: fetch_or sets root_key_written.  The call that
\* found it unset builds the request that registers the root key, which
\* checks the start key, sends it and waits for the answer; any other call
\* goes on to its builder.
AdapterWriteBatch(task, deletions, insertions) ==
  /\ a_event = WriteIdle
  /\ a_call[task] = CallIdle
  /\ a_written' = TRUE
  /\ IF a_written
     THEN AdapterBuilds(task, deletions, insertions, FALSE)
     ELSE IF build_put_transaction(a_start, 0) # "Ok"
     THEN /\ a_event' = WriteEvent("write_batch", TRUE, deletions, insertions,
                                   build_put_transaction(a_start, 0),
                                   SentRequests(FALSE, FALSE))
          /\ UNCHANGED a_call
     ELSE /\ a_call' = [a_call EXCEPT
                          ![task] = WriteCall(deletions, insertions, TRUE,
                                              "registering")]
          /\ UNCHANGED a_event
  /\ UNCHANGED <<a_table, a_start>>
  /\ OutsideAdapter

\* The request that registers the root key is answered: with an error,
\* which write_batch returns, or else the call goes on to its builder.
AdapterRegistered(task, failed) ==
  /\ a_event = WriteIdle
  /\ a_call[task].pc = "registering"
  /\ IF failed
     THEN /\ a_call' = [a_call EXCEPT ![task] = CallIdle]
          /\ a_event' = WriteEvent("write_batch", TRUE, a_call[task].deletions,
                                   a_call[task].insertions, "TransactWriteItem",
                                   SentRequests(TRUE, FALSE))
     ELSE AdapterBuilds(task, a_call[task].deletions, a_call[task].insertions,
                        TRUE)
  /\ UNCHANGED <<a_written, a_table, a_start>>
  /\ OutsideAdapter

\* The transaction of the batch is answered: with an error and nothing
\* written, or written as a whole; write_batch returns.
AdapterWritten(task, failed) ==
  /\ a_event = WriteIdle
  /\ a_call[task].pc = "sending"
  /\ a_call' = [a_call EXCEPT ![task] = CallIdle]
  /\ a_event' = WriteEvent("write_batch", a_call[task].fresh,
                           a_call[task].deletions, a_call[task].insertions,
                           IF failed THEN "TransactWriteItem" ELSE "Ok",
                           SentRequests(a_call[task].fresh, TRUE))
  /\ a_table' = IF failed THEN a_table
                ELSE Inserted(Deleted(a_table, a_call[task].deletions),
                              a_call[task].insertions)
  /\ UNCHANGED <<a_written, a_start>>
  /\ OutsideAdapter

\* The reads of the handle and of its clone, and the answers of the
\* backend to their requests.
AdapterReads ==
  \/ \E task \in Callers, name \in {"read_value_bytes", "contains_key"},
        key \in KeyLens :
       AdapterReadOne(task, name, key)
  \/ \E task \in Callers, name \in {"contains_keys", "read_multi_values_bytes"},
        key_list \in SeqsUpTo(KeyLens, AdapterBatch + 1) :
       AdapterReadMany(task, name, key_list)
  \/ \E task \in Callers, failed \in BOOLEAN : AdapterAnswered(task, failed)
  \/ \E task \in Callers,
        name \in {"find_keys_by_prefix", "find_key_values_by_prefix"},
        prefix \in KeyLens :
       AdapterFind(task, name, prefix)
  \/ \E task \in Callers, failed \in BOOLEAN, more \in BOOLEAN :
       AdapterQueried(task, failed, more)

AdapterNext ==
  \/ AdapterReturned
  \/ AdapterOpen
  \/ AdapterReads
  \/ \E task \in Callers :
       /\ a_event = WriteIdle
       /\ a_call[task] = CallIdle
       /\ \E deletions \in SeqsUpTo(KeyLens, AdapterBatch),
             insertions \in SeqsUpTo(Puts, AdapterBatch) :
            AdapterWriteBatch(task, deletions, insertions)
  \/ \E task \in Callers, failed \in BOOLEAN : AdapterRegistered(task, failed)
  \/ \E task \in Callers, failed \in BOOLEAN : AdapterWritten(task, failed)

SpecAdapter == AdapterInit /\ [][AdapterNext]_adapterVars

\* The reads alone, on a handle whose root key is registered or not.
ReadsInit ==
  /\ a_written \in BOOLEAN
  /\ a_table = [k \in ValidKeyLens |-> -1]
  /\ a_event = WriteIdle
  /\ a_start \in StartKeyLens
  /\ a_call = [task \in Callers |-> CallIdle]
  /\ CacheUnused
  /\ JournalUnused
  /\ SplitUnused
  /\ DynamoUnused
  /\ ServiceUnused

ReadsNext ==
  \/ AdapterReturned
  \/ AdapterReads

SpecReads == ReadsInit /\ [][ReadsNext]_adapterVars

\* C20, as the claim states it: a call with a key that is empty or longer
\* than MAX_KEY_SIZE returns ZeroLengthKey or KeyTooLong and has sent no
\* request to the backend, whatever the value, also when it is the first
\* write_batch of a freshly opened store.
C20_BadKeySendsNothing ==
  a_event.bad =>
    /\ a_event.result \in {"ZeroLengthKey", "KeyTooLong"}
    /\ a_event.sent = <<>>

\* The first write_batch of a freshly opened store, with a key longer than
\* MAX_KEY_SIZE, returned KeyTooLong after the request that registers the
\* root key was sent.
C20_Witness ==
  /\ a_event.name = "write_batch"
  /\ a_event.fresh
  /\ a_event.bad
  /\ a_event.result = "KeyTooLong"
  /\ a_event.sent = <<"transact_write_items">>

----------------------------------------------------------------------------
(* DynamoDbStoreInternal::write_batch, request by request, over the table  *)
(* of one namespace.  Tasks call write_batch on store handles; two tasks   *)
(* on one handle are a store and its clone.  A key is a sequence of bytes, *)
(* a value is given by its length in bytes.                                *)

PARTITION_KEY_ROOT_KEY == <<1>>

EMPTY_ROOT_KEY == <<0>>

MAX_TRANSACT_WRITE_ITEM_TOTAL_SIZE == 4000000

MAX_TRANSACT_WRITE_ITEM_SIZE == 100

\* The deletions and the insertions of an everyday batch: at most this
\* many each.
StoreBatch == 1

Handles == {1, 2}

StoreTasks == {1, 2}

StoreRootKeys == {<<>>, <<1>>}

AllRootKeys == SeqsUpTo({0, 1}, 2)

StoreKey == <<0>>

\* open_internal: a store on the partition of a start key.  Its flag
\* root_key_written, FALSE at first and shared with its clones, is kept
\* apart from it.
open_internal(start_key) == [start_key |-> start_key]

\* open_shared without the byte in front of the root key
open_shared_bare(root_key) == open_internal(root_key)

\* open_shared, open_exclusive: the store of a root key, on the partition
\* of EMPTY_ROOT_KEY followed by the root key
open_shared(root_key) == open_internal(EMPTY_ROOT_KEY \o root_key)

\* The root key a store was opened with by open_shared.
root_key_of(store) ==
  SubSeq(store.start_key, Len(EMPTY_ROOT_KEY) + 1, Len(store.start_key))

StoreBatchOf(deletions, insertions) ==
  [deletions |-> deletions, insertions |-> insertions]

\* A batch with one item more than MAX_TRANSACT_WRITE_ITEM_SIZE.
ManyItems ==
  StoreBatchOf([i \in 1..(MAX_TRANSACT_WRITE_ITEM_SIZE + 1) |-> <<i>>], <<>>)

\* A batch of the fewest values of RAW_MAX_VALUE_SIZE bytes that together
\* exceed MAX_TRANSACT_WRITE_ITEM_TOTAL_SIZE.
HeavyItems ==
  StoreBatchOf(<<>>,
               [i \in 1..((MAX_TRANSACT_WRITE_ITEM_TOTAL_SIZE \div RAW_MAX_VALUE_SIZE) + 1)
                  |-> [value |-> RAW_MAX_VALUE_SIZE, key |-> <<i>>]])

\* The batches of a task: deletions or insertions of the everyday key,
\* and for the first task the two batches above the limits.
StoreBatches(t) ==
  {StoreBatchOf(deletions, <<>>) : deletions \in SeqsUpTo({StoreKey}, StoreBatch)}
  \cup {StoreBatchOf(<<>>, insertions) :
          insertions \in SeqsUpTo({[value |-> 1, key |-> StoreKey]}, StoreBatch)}
  \cup (IF t = 1 THEN {ManyItems, HeavyItems} ELSE {})

\* TransactionBuilder::insert_delete_request and insert_put_request: the
\* requests of a batch on a partition, the deletions first.
TransactionBuilder(start_key, batch) ==
  [i \in 1..Len(batch.deletions) |->
     [value |-> 0, key |-> batch.deletions[i],
      partition |-> start_key, kind |-> "delete"]]
  \o [i \in 1..Len(batch.insertions) |->
        [value |-> batch.insertions[i].value, key |-> batch.insertions[i].key,
         partition |-> start_key, kind |-> "put"]]

\* What the builder of a batch returns: the first failed size check.
StoreBuilderResult(batch) ==
  BuilderResult([i \in 1..Len(batch.deletions) |-> Len(batch.deletions[i])],
                [i \in 1..Len(batch.insertions) |->
                   [value |-> batch.insertions[i].value,
                    key |-> Len(batch.insertions[i].key)]])

\* The request that registers a root key: an empty value under the start
\* key, in the partition of the root keys.
Registration(start_key) ==
  <<[value |-> 0, key |-> start_key,
     partition |-> PARTITION_KEY_ROOT_KEY, kind |-> "put"]>>

\* The bytes of the keys and values of a transaction.
RECURSIVE TransactionBytes(_)
TransactionBytes(transaction) ==
  IF transaction = <<>> THEN 0
  ELSE Len(Head(transaction).key) + Head(transaction).value
       + TransactionBytes(Tail(transaction))

\* The table after a transaction: all of its requests at once.
Applied(items, transaction) ==
  LET requests == Range(transaction)
  IN {it \in items :
        \A r \in requests : r.partition # it.partition \/ r.key # it.key}
     \cup {[value |-> r.value, key |-> r.key, partition |-> r.partition] :
             r \in {q \in requests : q.kind = "put"}}

\* client.get_item
get_item(items, partition_key, key) ==
  {it \in items : it.partition = partition_key /\ it.key = key}

\* client.query: the items of a partition whose key begins with a prefix
query(items, partition_key, prefix) ==
  {it \in items : it.partition = partition_key /\ IsPrefix(prefix, it.key)}

\* find_keys_by_prefix: the keys found, without the prefix
find_keys_by_prefix(items, start_key, prefix) ==
  {SubSeq(it.key, Len(prefix) + 1, Len(it.key)) :
     it \in query(items, start_key, prefix)}

\* find_key_values_by_prefix
find_key_values_by_prefix(items, start_key, prefix) ==
  {<<SubSeq(it.key, Len(prefix) + 1, Len(it.key)), it.value>> :
     it \in query(items, start_key, prefix)}

\* list_root_keys, had it scanned the whole partition of the root keys and
\* left the keys as they are stored
list_root_keys_unstripped(items) ==
  {it.key : it \in {jt \in items : jt.partition = PARTITION_KEY_ROOT_KEY}}

\* list_root_keys: a store on the partition of the root keys lists the
\* keys that begin with EMPTY_ROOT_KEY
list_root_keys(items) ==
  find_keys_by_prefix(items, open_internal(PARTITION_KEY_ROOT_KEY).start_key,
                      EMPTY_ROOT_KEY)

\* What the reads, existence checks and prefix scans of a store return.
StoreView(items, start_key) ==
  [contains |-> [i \in 0..1 |-> get_item(items, start_key, <<i>>) # {}],
   read |-> [i \in 0..1 |-> {it.value : it \in get_item(items, start_key, <<i>>)}],
   scan |-> [i \in 0..1 |-> find_key_values_by_prefix(items, start_key, <<i>>)]]

NoStoreBatch == StoreBatchOf(<<>>, <<>>)

StoreIdle == [batch |-> NoStoreBatch, pc |-> "idle", transaction |-> <<>>, handle |-> 0]

StoreEvent(name, handle, result) ==
  [name |-> name, result |-> result, handle |-> handle]

StoreInit ==
  /\ d_items = {}
  /\ d_handle \in [Handles -> {open_shared(root_key) : root_key \in StoreRootKeys}]
  /\ d_written = [h \in Handles |-> FALSE]
  /\ d_call = [t \in StoreTasks |-> StoreIdle]
  /\ d_event = StoreEvent("open", 0, "Ok")
  /\ CacheUnused
  /\ JournalUnused
  /\ SplitUnused
  /\ AdapterUnused
  /\ GateUnused
  /\ StackUnused
  /\ RawUnused
  /\ NamespaceUnused
  /\ ServiceUnused

OutsideStore ==
  UNCHANGED <<cacheVars, journalVars, splitVars, adapterVars, gateVars, stackVars,
              rawVars, namespaceVars, serviceVars>>

\* write_batch returns.
StoreReturns(t, h, result) ==
  /\ d_call' = [d_call EXCEPT ![t] = StoreIdle]
  /\ d_event' = StoreEvent("write_batch", h, result)

\* write_batch from the builder of the batch on: the batch is checked,
\* and its transaction, if it has requests, is sent.
StoreBuilds(t, h, batch) ==
  IF StoreBuilderResult(batch) # "Ok"
  THEN StoreReturns(t, h, StoreBuilderResult(batch))
  ELSE IF TransactionBuilder(d_handle[h].start_key, batch) = <<>>
  THEN StoreReturns(t, h, "Ok")
  ELSE /\ d_call' = [d_call EXCEPT ![t] =
                       [batch |-> batch,
                       pc |-> "sending",
                       transaction |->
                         TransactionBuilder(d_handle[h].start_key, batch),
                       handle |-> h]]
       /\ d_event' = StoreEvent("transact_write_items", h, "sent")

\* write_batch is called on a handle whose flag is not set: fetch_or sets
\* it, and the request that registers the root key is sent.
StoreFirstWriteBatch(t, h, batch) ==
  /\ d_call[t].pc = "idle"
  /\ ~d_written[h]
  /\ d_written' = [d_written EXCEPT ![h] = TRUE]
  /\ IF build_put_transaction(Len(d_handle[h].start_key), 0) # "Ok"
     THEN StoreReturns(t, h, build_put_transaction(Len(d_handle[h].start_key), 0))
     ELSE /\ d_call' = [d_call EXCEPT ![t] =
                          [batch |-> batch,
                          pc |-> "registering",
                          transaction |-> Registration(d_handle[h].start_key),
                          handle |-> h]]
          /\ d_event' = StoreEvent("transact_write_items", h, "sent")
  /\ UNCHANGED <<d_items, d_handle>>
  /\ OutsideStore

\* write_batch is called on a handle whose flag is set.
StoreWriteBatch(t, h, batch) ==
  /\ d_call[t].pc = "idle"
  /\ d_written[h]
  /\ StoreBuilds(t, h, batch)
  /\ UNCHANGED <<d_items, d_handle, d_written>>
  /\ OutsideStore

\* The request that registers the root key is done: write_batch goes on
\* to its batch.
StoreRegistered(t) ==
  /\ d_call[t].pc = "registering"
  /\ d_items' = Applied(d_items, d_call[t].transaction)
  /\ StoreBuilds(t, d_call[t].handle, d_call[t].batch)
  /\ UNCHANGED <<d_handle, d_written>>
  /\ OutsideStore

\* The transaction of the batch is done.
StoreWritten(t) ==
  /\ d_call[t].pc = "sending"
  /\ d_items' = Applied(d_items, d_call[t].transaction)
  /\ StoreReturns(t, d_call[t].handle, "Ok")
  /\ UNCHANGED <<d_handle, d_written>>
  /\ OutsideStore

\* The backend fails a request: `?` returns its error from write_batch.
StoreRequestFails(t) ==
  /\ d_call[t].pc \in {"registering", "sending"}
  /\ StoreReturns(t, d_call[t].handle, "TransactWriteItem")
  /\ UNCHANGED <<d_items, d_handle, d_written>>
  /\ OutsideStore

StoreNext ==
  \/ \E t \in StoreTasks, h \in Handles : \E batch \in StoreBatches(t) :
       \/ StoreFirstWriteBatch(t, h, batch)
       \/ StoreWriteBatch(t, h, batch)
  \/ \E t \in StoreTasks :
       \/ StoreRegistered(t)
       \/ StoreWritten(t)
       \/ StoreRequestFails(t)

SpecStore == StoreInit /\ [][StoreNext]_storeVars

\* The transactions that write_batch calls have in flight.
InFlight == {d_call[t].transaction : t \in {u \in StoreTasks : d_call[u].pc # "idle"}}

\* C21, as the claim states it: every transaction that write_batch sends
\* has at most MAX_TRANSACT_WRITE_ITEM_SIZE requests and at most
\* MAX_TRANSACT_WRITE_ITEM_TOTAL_SIZE bytes, a larger batch being sent as
\* several transactions.
C21_TransactionsWithinLimits ==
  \A transaction \in InFlight :
    /\ Len(transaction) <= MAX_TRANSACT_WRITE_ITEM_SIZE
    /\ TransactionBytes(transaction) <= MAX_TRANSACT_WRITE_ITEM_TOTAL_SIZE

\* A batch of MAX_TRANSACT_WRITE_ITEM_SIZE + 1 deletions is in flight as
\* one transaction.
C21_Witness ==
  \E t \in StoreTasks :
    /\ d_call[t].pc = "sending"
    /\ d_call[t].batch = ManyItems
    /\ Len(d_call[t].transaction) = MAX_TRANSACT_WRITE_ITEM_SIZE + 1

\* C22, as the claim states it: when write_batch returns success, the root
\* key of its store is an item of the partition of the root keys and is
\* returned by list_root_keys, whatever the interleaving of the calls on a
\* handle and its clones, also after a write_batch whose registration
\* request failed.
C22_SuccessMeansRegistered ==
  (d_event.name = "write_batch" /\ d_event.result = "Ok") =>
    root_key_of(d_handle[d_event.handle]) \in list_root_keys(d_items)

\* write_batch returned success on a handle whose flag is set, whose root
\* key list_root_keys does not return, and for which no registration
\* request is in flight: the request of an earlier call failed.
C22_Witness ==
  /\ d_event.name = "write_batch"
  /\ d_event.result = "Ok"
  /\ d_written[d_event.handle]
  /\ root_key_of(d_handle[d_event.handle]) \notin list_root_keys(d_items)
  /\ \A t \in StoreTasks : d_call[t].pc = "idle"
  /\ \E it \in d_items : it.partition = d_handle[d_event.handle].start_key

\* C23: the partitions of distinct root keys differ, and none is the
\* partition of the root keys; a step of write_batch on a store leaves
\* what every read, existence check and prefix scan returns under any
\* other root key as it was, and the transaction of a batch leaves
\* list_root_keys as it was.
C23_RootKeysAreIsolated ==
  [][ /\ \A a \in AllRootKeys, b \in AllRootKeys :
           /\ a # b => open_shared(a).start_key # open_shared(b).start_key
           /\ open_shared(a).start_key # PARTITION_KEY_ROOT_KEY
      /\ \A h \in Handles, b \in StoreRootKeys :
           (d_event'.handle = h /\ root_key_of(d_handle[h]) # b) =>
             StoreView(d_items', open_shared(b).start_key)
               = StoreView(d_items, open_shared(b).start_key)
      /\ (\E t \in StoreTasks : d_call[t].pc = "sending" /\ d_call'[t].pc = "idle") =>
           list_root_keys(d_items') = list_root_keys(d_items)
    ]_storeVars

\* A write_batch returned success on a store while the store of another
\* root key holds items, and the two stores read differently.
C23_Witness ==
  \E h \in Handles, g \in Handles :
    /\ d_event = StoreEvent("write_batch", h, "Ok")
    /\ root_key_of(d_handle[h]) # root_key_of(d_handle[g])
    /\ \E it \in d_items : it.partition = d_handle[h].start_key
    /\ \E it \in d_items : it.partition = d_handle[g].start_key
    /\ StoreView(d_items, d_handle[h].start_key)
         # StoreView(d_items, d_handle[g].start_key)

----------------------------------------------------------------------------
(* The admission gate (DynamoDbStoreInternal::acquire) of a connection     *)
(* with max_concurrent_queries = Some(n).  Task 1 reads a store of root    *)
(* key A; task 2 scans and writes a store of root key B that shares the    *)
(* semaphore, so that nothing writes the partition task 1 reads.           *)

\* max_concurrent_queries
GateSlots == 1

\* The keys of a bulk read: at most this many.
GateFan == 2

\* The pages of a prefix scan: at most this many.
GatePages == 2

GateTasks == {1, 2}

GateKeys == {<<>>, <<1>>, <<2>>}

\* The partition of the reading store: a value of five bytes under one
\* key, nothing under the other.
GateTables == {[key \in {<<1>>, <<2>>} |-> IF key = <<1>> THEN 5 ELSE -1]}

GatePrefixes == {<<>>, <<1>>}

\* The keys of a bulk read: the two keys of the partition in turn, from
\* either of them on, and the lists with a key that is refused.
GateKeyLists ==
  {[i \in 1..n |-> <<1 + ((i + first) % 2)>>] : n \in 0..GateFan, first \in 0..1}
  \cup {<<<<>>>>, <<<<1>>, <<>>>>}

GateResult(status, list) == [status |-> status, list |-> list]

\* A backend call of an operation: behind the gate or not, waiting for a
\* permit, in flight, or returned.
GateCall(request, gated, key) ==
  [key |-> key, failed |-> FALSE, request |-> request,
   gated |-> gated, state |-> IF gated THEN "waiting" ELSE "inflight"]

GateIdle == [name |-> "idle", calls |-> <<>>, order |-> <<>>, key_list |-> <<>>]

GateRunning(name, key_list, calls) ==
  [name |-> name, calls |-> calls, order |-> <<>>, key_list |-> key_list]

\* contains_key_general, read_value_bytes_general: what a get_item that
\* succeeds makes of the item
get_item_response(name, table, key) ==
  IF name \in {"contains_key", "contains_keys"} THEN table[key] # -1 ELSE table[key]

\* join_all, had it returned the outputs in the order of completion
join_all_as_completed(outputs, order) == [i \in 1..Len(order) |-> outputs[order[i]]]

\* join_all: the outputs in the order of the futures
join_all(outputs, order) == outputs

\* collect::<Result<_, _>>(): the first error of the list, or the list
collect_result(name, table, run) ==
  LET joined == join_all(run.calls, run.order)
      errors == {i \in 1..Len(joined) : joined[i].failed}
  IN IF errors # {} THEN GateResult("Get", <<>>)
     ELSE GateResult("Ok", [i \in 1..Len(joined) |->
                              get_item_response(name, table, joined[i].key)])

\* The permit stays with a call that failed.
release_on_success(permits, call) ==
  IF call.gated /\ ~call.failed THEN permits + 1 ELSE permits

\* SemaphoreGuard dropped: a call behind the gate gives its permit back
release(permits, call) == IF call.gated THEN permits + 1 ELSE permits

\* What an operation returned, with the calls of it that failed and the
\* order in which its calls came back.
GateEvent(name, run, result) ==
  [name |-> name, order |-> run.order, key_list |-> run.key_list,
   result |-> result,
   failed |-> {j \in 1..Len(run.calls) : run.calls[j].failed}]

\* The reading task is in an operation, or has called none.
GateQuiet == GateEvent("none", GateIdle, GateResult("Ok", <<>>))

\* The event after a step of a task: only the reading task is observed.
GateObserved(t, event) == IF t = 1 THEN event ELSE g_event

\* The calls in flight at the backend.
GateInFlight ==
  {<<t, i>> \in GateTasks \X (1..GateFan) :
     i <= Len(g_run[t].calls) /\ g_run[t].calls[i].state = "inflight"}

\* The calls suspended in acquire.
GateWaiting ==
  {<<t, i>> \in GateTasks \X (1..GateFan) :
     i <= Len(g_run[t].calls) /\ g_run[t].calls[i].state = "waiting"}

GateInit ==
  /\ g_table \in GateTables
  /\ g_permits = GateSlots
  /\ g_run = [t \in GateTasks |-> GateIdle]
  /\ g_event = GateQuiet
  /\ CacheUnused
  /\ JournalUnused
  /\ SplitUnused
  /\ AdapterUnused
  /\ StoreUnused
  /\ StackUnused
  /\ RawUnused
  /\ NamespaceUnused
  /\ ServiceUnused

OutsideGate ==
  UNCHANGED <<cacheVars, journalVars, splitVars, adapterVars, storeVars, stackVars,
              rawVars, namespaceVars, serviceVars>>

\* An operation begins: it returns at once, or it has calls to make.
GateBegins(t, name, key_list, result, calls) ==
  /\ g_run[t].name = "idle"
  /\ IF result.status # "Ok" \/ calls = <<>>
     THEN /\ g_event' = GateObserved(t, GateEvent(name, GateRunning(name, key_list, <<>>),
                                                  result))
          /\ UNCHANGED g_run
     ELSE /\ g_run' = [g_run EXCEPT ![t] = GateRunning(name, key_list, calls)]
          /\ g_event' = GateObserved(t, GateQuiet)
  /\ UNCHANGED <<g_table, g_permits>>
  /\ OutsideGate

\* read_value_bytes, contains_key: the key is checked, then one get_item
GateRead(name, key) ==
  GateBegins(1, name, <<key>>, GateResult(check_key_size(Len(key)), <<>>),
             <<GateCall("get_item", TRUE, key)>>)

\* contains_keys, read_multi_values_bytes: every key is checked, then
\* join_all runs one get_item per key
GateReadMany(name, key_list) ==
  GateBegins(1, name, key_list,
             GateResult(FirstError([i \in 1..Len(key_list) |->
                                      check_key_size(Len(key_list[i]))]), <<>>),
             [i \in 1..Len(key_list) |-> GateCall("get_item", TRUE, key_list[i])])

\* find_keys_by_prefix, find_key_values_by_prefix: get_list_responses
\* checks the prefix and asks for the first page
GateFind(prefix) ==
  GateBegins(2, "get_list_responses", <<prefix>>,
             GateResult(check_key_size(Len(prefix)), <<>>),
             <<GateCall("query", TRUE, prefix)>>)

\* write_batch: the first one of a handle sends the request that
\* registers the root key, without a permit; the others go to the gate
\* with the transaction of the batch
GateWriteBatch(first) ==
  GateBegins(2, "write_batch", <<>>, GateResult("Ok", <<>>),
             IF first
             THEN <<GateCall("transact_write_items", FALSE, PARTITION_KEY_ROOT_KEY)>>
             ELSE <<GateCall("transact_write_items", TRUE, <<>>)>>)

\* acquire: a permit is free, and a suspended call takes it
GateAdmit(t, i) ==
  /\ <<t, i>> \in GateWaiting
  /\ g_permits > 0
  /\ g_permits' = g_permits - 1
  /\ g_run' = [g_run EXCEPT ![t].calls[i].state = "inflight"]
  /\ UNCHANGED <<g_table, g_event>>
  /\ OutsideGate

\* The operation of a call that came back: what it does next.  A read
\* returns; a bulk read returns when all its calls are back; a scan
\* returns on an error or its latest page, or asks for the next page; a
\* write_batch returns on an error or after its transaction, or goes to
\* the gate with its transaction.
GateGoesOn(t, run, more) ==
  LET name == run.name
      done == \A j \in 1..Len(run.calls) : run.calls[j].state = "done"
      latest == run.calls[Len(run.calls)]
      returns(result) ==
        /\ g_run' = [g_run EXCEPT ![t] = GateIdle]
        /\ g_event' = GateObserved(t, GateEvent(name, run, result))
      calls_next(call) ==
        /\ g_run' = [g_run EXCEPT ![t] = [run EXCEPT !.calls = <<call>>]]
        /\ UNCHANGED g_event
  IN IF name \in {"contains_keys", "read_multi_values_bytes"}
     THEN IF done
          THEN returns(collect_result(name, g_table, run))
          ELSE g_run' = [g_run EXCEPT ![t] = run] /\ UNCHANGED g_event
     ELSE IF name \in {"contains_key", "read_value_bytes"}
     THEN returns(IF latest.failed THEN GateResult("Get", <<>>)
                  ELSE GateResult("Ok", <<get_item_response(name, g_table, latest.key)>>))
     ELSE IF name = "write_batch"
     THEN IF latest.failed THEN returns(GateResult("TransactWriteItem", <<>>))
          ELSE IF ~latest.gated /\ more
          THEN calls_next(GateCall("transact_write_items", TRUE, <<>>))
          ELSE returns(GateResult("Ok", <<>>))
     ELSE IF latest.failed THEN returns(GateResult("Query", <<>>))
          ELSE IF more /\ Len(run.order) < GatePages
          THEN calls_next(GateCall("query", TRUE, latest.key))
          ELSE returns(GateResult("Ok", <<>>))

\* A call in flight comes back, with a response or with an error: its
\* guard is dropped.  `more` says that a page was not the latest one, or
\* that a batch has requests.
GateCompletes(t, i, failed, more) ==
  /\ <<t, i>> \in GateInFlight
  /\ g_permits' = release(g_permits, [g_run[t].calls[i] EXCEPT !.failed = failed])
  /\ GateGoesOn(t, [g_run[t] EXCEPT !.calls[i].state = "done",
                                    !.calls[i].failed = failed,
                                    !.order = Append(@, i)], more)
  /\ UNCHANGED g_table
  /\ OutsideGate

GateNext ==
  \/ \E name \in {"read_value_bytes", "contains_key"}, key \in GateKeys :
       GateRead(name, key)
  \/ \E name \in {"contains_keys", "read_multi_values_bytes"},
        key_list \in GateKeyLists :
       GateReadMany(name, key_list)
  \/ \E prefix \in GatePrefixes : GateFind(prefix)
  \/ \E first \in BOOLEAN : GateWriteBatch(first)
  \/ \E t \in GateTasks, i \in 1..GateFan : GateAdmit(t, i)
  \/ \E t \in GateTasks, i \in 1..GateFan, failed \in BOOLEAN, more \in BOOLEAN :
       GateCompletes(t, i, failed, more)

SpecGate == GateInit /\ [][GateNext]_gateVars

\* C24, as the claim states it: with the limit n, the requests in flight
\* at the backend from the stores that share the connection, reads,
\* existence checks, scan pages, transactions and registrations of root
\* keys alike, are never more than n.
C24_InFlightWithinLimit == Cardinality(GateInFlight) <= GateSlots

\* Every permit is taken by a get_item in flight, and the request that
\* registers a root key is in flight as well.
C24_Witness ==
  /\ g_permits = 0
  /\ Cardinality(GateInFlight) = GateSlots + 1
  /\ \E i \in 1..GateFan : <<1, i>> \in GateInFlight
  /\ <<2, 1>> \in GateInFlight
  /\ ~g_run[2].calls[1].gated

\* The gate with its scheduling: the backend answers every call in
\* flight, and a permit that is free while calls are suspended in acquire
\* is taken by one of them.  Which one is not said: a call that comes to
\* the gate later can take the permit ahead of a call that waits.
SpecGateFair ==
  /\ SpecGate
  /\ WF_gateVars(\E t \in GateTasks, i \in 1..GateFan : GateAdmit(t, i))
  /\ \A t \in GateTasks, i \in 1..GateFan :
       WF_gateVars(\E failed \in BOOLEAN, more \in BOOLEAN :
                     GateCompletes(t, i, failed, more))

\* The calls the tasks can have: the reading task one per key, the other
\* task one at a time.
GateCallIds == ({1} \X (1..GateFan)) \cup {<<2, 1>>}

\* The calls behind the gate that hold a permit.
GateHolders == {c \in GateInFlight : g_run[c[1]].calls[c[2]].gated}

\* C25, as the claim states it: when every call in flight comes back, a
\* call suspended at the gate is admitted in the end; the permits are held
\* by the calls in flight and by nothing else.
C25_SuspendedIsAdmitted ==
  /\ \A c \in GateCallIds : (c \in GateWaiting) ~> (c \in GateInFlight)
  /\ [](g_permits + Cardinality(GateHolders) = GateSlots)

\* C25, amended: when every call in flight comes back, the gate does not
\* deadlock: a call suspended at the gate is admitted in the end, unless
\* calls of another task are admitted ahead of it again and again; the
\* permits are held by the calls in flight and by nothing else, so that a
\* call gives its permit back when it returns, with a response or with an
\* error, and a task that waits for a permit holds none for the call that
\* waits.
C25_GateNeverDeadlocks ==
  /\ \A c \in GateCallIds :
       \/ []<>(c \notin GateWaiting)
       \/ []<><<\E d \in GateCallIds :
                  d[1] # c[1] /\ GateAdmit(d[1], d[2])>>_gateVars
  /\ [](g_permits + Cardinality(GateHolders) = GateSlots)

\* The second get_item of a bulk read is in flight after it had to wait at
\* the gate: the first one has come back with an error, and a scan of the
\* other store is still suspended.
C25_Witness ==
  /\ g_run[1].name \in {"contains_keys", "read_multi_values_bytes"}
  /\ Len(g_run[1].calls) = 2
  /\ g_run[1].calls[1].state = "done"
  /\ g_run[1].calls[1].failed
  /\ <<1, 2>> \in GateInFlight
  /\ <<2, 1>> \in GateWaiting
  /\ g_permits = 0

\* C26: with no writer on the store, contains_keys and
\* read_multi_values_bytes return a list as long as the list of keys whose
\* i-th element is what contains_key and read_value_bytes return for the
\* i-th key, in whatever order the calls come back; when a key is refused
\* or a call fails they return an error and no list.
C26_BulkReadsArePointwise ==
  [][ (g_event' # g_event
       /\ g_event'.name \in {"contains_keys", "read_multi_values_bytes"}) =>
        LET key_list == g_event'.key_list
            single == IF g_event'.name = "contains_keys"
                      THEN "contains_key" ELSE "read_value_bytes"
            refused == \E i \in 1..Len(key_list) :
                         check_key_size(Len(key_list[i])) # "Ok"
            result == g_event'.result
        IN /\ result.status = "Ok" <=> (~refused /\ g_event'.failed = {})
           /\ result.status = "Ok" =>
                /\ Len(result.list) = Len(key_list)
                /\ \A i \in 1..Len(key_list) :
                     result.list[i] = get_item_response(single, g_table, key_list[i])
           /\ result.status # "Ok" => result.list = <<>>
    ]_gateVars

\* A bulk read of a key that is there and a key that is not returned its
\* list after the call of the second key came back first.
C26_Witness ==
  /\ g_event.name = "read_multi_values_bytes"
  /\ g_event.result.status = "Ok"
  /\ g_event.order = <<2, 1>>
  /\ Len(g_event.result.list) = 2
  /\ g_event.result.list[1] # g_event.result.list[2]

----------------------------------------------------------------------------
(* The composed store: the type DynamoDbDatabase nests the layers.  A call *)
(* on it enters them from the outermost on, each layer calling the one it  *)
(* wraps: a write goes down to the adapter, a read goes down until a       *)
(* caching layer answers it or the adapter does, and the call returns      *)
(* through the layers entered, in reverse.                                 *)

\* pub type DynamoDbDatabase, in its two builds: the layers, the outermost
\* first
DynamoDbDatabase(with_metrics) ==
  IF with_metrics
  THEN <<"MeteredDatabase", "LruCachingDatabase", "MeteredDatabase",
         "ValueSplittingDatabase", "MeteredDatabase",
         "JournalingKeyValueDatabase", "DynamoDbDatabaseInternal">>
  ELSE <<"LruCachingDatabase", "ValueSplittingDatabase",
         "JournalingKeyValueDatabase", "DynamoDbDatabaseInternal">>

StackWrites == {"write_batch"}

StackReads ==
  {"read_value_bytes", "contains_key", "contains_keys", "read_multi_values_bytes",
   "find_keys_by_prefix", "find_key_values_by_prefix"}

StackInit ==
  /\ l_metrics \in BOOLEAN
  /\ l_call = "none"
  /\ l_path = <<>>
  /\ l_depth = 0
  /\ CacheUnused
  /\ JournalUnused
  /\ SplitUnused
  /\ AdapterUnused
  /\ StoreUnused
  /\ GateUnused
  /\ RawUnused
  /\ NamespaceUnused
  /\ ServiceUnused

OutsideStack ==
  UNCHANGED <<cacheVars, journalVars, splitVars, adapterVars, storeVars, gateVars,
              rawVars, namespaceVars, serviceVars>>

\* An operation is called on the composed store: its outermost layer.
StackCall(name) ==
  /\ l_call = "none"
  /\ l_call' = name
  /\ l_path' = <<DynamoDbDatabase(l_metrics)[1]>>
  /\ l_depth' = 1
  /\ UNCHANGED l_metrics
  /\ OutsideStack

\* The innermost layer entered calls the layer it wraps.
StackDescends ==
  /\ l_call # "none"
  /\ l_depth = Len(l_path)
  /\ Len(l_path) < Len(DynamoDbDatabase(l_metrics))
  /\ l_path' = Append(l_path, DynamoDbDatabase(l_metrics)[Len(l_path) + 1])
  /\ l_depth' = l_depth + 1
  /\ UNCHANGED <<l_metrics, l_call>>
  /\ OutsideStack

\* The call is answered where it is, by the adapter or, a read, by the
\* caching layer; the layer that answers, and then each layer above it,
\* returns to its caller.
StackReturns ==
  /\ l_call # "none"
  /\ \/ l_depth < Len(l_path)
     \/ l_path[Len(l_path)] = "DynamoDbDatabaseInternal"
     \/ l_call \in StackReads /\ l_path[Len(l_path)] = "LruCachingDatabase"
  /\ l_depth' = l_depth - 1
  /\ IF l_depth = 1
     THEN l_call' = "none" /\ l_path' = <<>>
     ELSE UNCHANGED <<l_call, l_path>>
  /\ UNCHANGED l_metrics
  /\ OutsideStack

StackNext ==
  \/ \E name \in StackWrites \cup StackReads : StackCall(name)
  \/ StackDescends
  \/ StackReturns

SpecStack == StackInit /\ [][StackNext]_stackVars

\* The place of the first entry of a layer in a path, 0 if it has none.
FirstEntry(path, layer) ==
  IF \E i \in 1..Len(path) : path[i] = layer
  THEN CHOOSE i \in 1..Len(path) :
         path[i] = layer /\ \A j \in 1..(i - 1) : path[j] # layer
  ELSE 0

\* The call has reached the adapter.
AtAdapter == l_path # <<>> /\ l_path[Len(l_path)] = "DynamoDbDatabaseInternal"

\* C27, as the claim states it: a write, and a read that goes down to the
\* adapter, reaches it through the cache, the metering of a build that
\* has it, the journal and the splitter, in that order, the journal above
\* the value splitting.
C27_JournalAboveSplitter ==
  (l_call # "none" /\ AtAdapter) =>
    /\ 0 < FirstEntry(l_path, "LruCachingDatabase")
    /\ FirstEntry(l_path, "LruCachingDatabase")
         < FirstEntry(l_path, "JournalingKeyValueDatabase")
    /\ l_metrics =>
         /\ FirstEntry(l_path, "LruCachingDatabase")
              < FirstEntry(l_path, "MeteredDatabase")
         /\ FirstEntry(l_path, "MeteredDatabase")
              < FirstEntry(l_path, "JournalingKeyValueDatabase")
    /\ FirstEntry(l_path, "JournalingKeyValueDatabase")
         < FirstEntry(l_path, "ValueSplittingDatabase")
    /\ FirstEntry(l_path, "ValueSplittingDatabase")
         < FirstEntry(l_path, "DynamoDbDatabaseInternal")

\* A write_batch of a build with metrics is in the adapter: it entered a
\* metering layer before the cache, and the value splitting before the
\* journal.
C27_Witness ==
  /\ l_call = "write_batch"
  /\ l_metrics
  /\ AtAdapter
  /\ l_depth = Len(l_path)
  /\ FirstEntry(l_path, "MeteredDatabase") < FirstEntry(l_path, "LruCachingDatabase")
  /\ FirstEntry(l_path, "ValueSplittingDatabase")
       < FirstEntry(l_path, "JournalingKeyValueDatabase")

----------------------------------------------------------------------------
(* The reads of DynamoDbStoreInternal over the items the backend returns,  *)
(* whose key and value attributes may be missing or of another type than   *)
(* a binary blob.                                                         *)

\* The items of the partition: at most this many.
RawItems == 2

AttributeTypes == {"B", "S", "missing"}

\* An attribute of an item: a binary blob (B) with its bytes, a value of
\* another type, or no attribute at all.
Attribute(type, data) == [data |-> data, type |-> type]

\* The i-th item of the partition, stored under the key <<1, i>>.
RawItem(i, key_type, value_type) ==
  [item_key |-> Attribute(key_type, <<1, i>>),
   item_value |-> Attribute(value_type, <<i>>)]

RawTables ==
  UNION {{[i \in 1..n |-> RawItem(i, shape[i][1], shape[i][2])] :
            shape \in [1..n -> AttributeTypes \X AttributeTypes]} :
         n \in 0..RawItems}

RawResult(status, data) == [data |-> data, status |-> status]

\* extract_key, had it left the prefix on the key
extract_key_whole(prefix_len, attributes) ==
  IF attributes.item_key.type = "missing" THEN RawResult("MissingKey", <<>>)
  ELSE IF attributes.item_key.type = "B"
  THEN RawResult("Ok", attributes.item_key.data)
  ELSE RawResult("WrongKeyType", <<>>)

\* extract_key
extract_key(prefix_len, attributes) ==
  IF attributes.item_key.type = "missing" THEN RawResult("MissingKey", <<>>)
  ELSE IF attributes.item_key.type = "B"
  THEN RawResult("Ok", SubSeq(attributes.item_key.data, prefix_len + 1,
                              Len(attributes.item_key.data)))
  ELSE RawResult("WrongKeyType", <<>>)

\* extract_value
extract_value(attributes) ==
  IF attributes.item_value.type = "missing" THEN RawResult("MissingValue", <<>>)
  ELSE IF attributes.item_value.type = "B"
  THEN RawResult("Ok", attributes.item_value.data)
  ELSE RawResult("WrongValueType", <<>>)

\* extract_value_owned, had it taken an item without a binary value for
\* no item
extract_value_owned_or_none(attributes) ==
  IF attributes.item_value.type = "B"
  THEN RawResult("Ok", attributes.item_value.data)
  ELSE RawResult("None", <<>>)

\* extract_value_owned
extract_value_owned(attributes) ==
  IF attributes.item_value.type = "missing" THEN RawResult("MissingValue", <<>>)
  ELSE IF attributes.item_value.type = "B"
  THEN RawResult("Ok", attributes.item_value.data)
  ELSE RawResult("WrongValueType", <<>>)

\* extract_key_value: the key first, then the value
extract_key_value(prefix_len, attributes) ==
  IF extract_key(prefix_len, attributes).status # "Ok"
  THEN extract_key(prefix_len, attributes)
  ELSE IF extract_value(attributes).status # "Ok"
  THEN extract_value(attributes)
  ELSE RawResult("Ok", <<extract_key(prefix_len, attributes).data,
                         extract_value(attributes).data>>)

\* collect(): the first error of the results, or the list of what they hold
Collected(results) ==
  IF \E i \in 1..Len(results) : results[i].status # "Ok"
  THEN results[CHOOSE i \in 1..Len(results) :
                 /\ results[i].status # "Ok"
                 /\ \A j \in 1..(i - 1) : results[j].status = "Ok"]
  ELSE RawResult("Ok", [i \in 1..Len(results) |-> results[i].data])

\* The projection of a query: the attributes asked for, out of the item.
Projected(attributes, with_value) ==
  IF with_value THEN attributes
  ELSE [attributes EXCEPT !.item_value = Attribute("missing", <<>>)]

\* read_value_bytes: the key is checked; get_item fails, or returns no
\* item, or an item, whose value is extracted
read_value_bytes(items, key, failed) ==
  IF check_key_size(Len(key)) # "Ok" THEN RawResult(check_key_size(Len(key)), <<>>)
  ELSE IF failed THEN RawResult("Get", <<>>)
  ELSE IF \E i \in 1..Len(items) : key = <<1, i>>
  THEN extract_value_owned(items[key[2]])
  ELSE RawResult("None", <<>>)

\* find_keys_by_prefix and find_key_values_by_prefix: get_list_responses
\* checks the prefix; the query fails, or returns the items, whose keys, or
\* keys and values, are extracted and collected
find_by_prefix(items, prefix, failed, with_value) ==
  IF check_key_size(Len(prefix)) # "Ok"
  THEN RawResult(check_key_size(Len(prefix)), <<>>)
  ELSE IF failed THEN RawResult("Query", <<>>)
  ELSE Collected([i \in 1..Len(items) |->
                    IF with_value
                    THEN extract_key_value(Len(prefix), Projected(items[i], TRUE))
                    ELSE extract_key(Len(prefix), Projected(items[i], FALSE))])

RawEvent(name, key, failed, result) ==
  [key |-> key, name |-> name, result |-> result, failed |-> failed]

RawInit ==
  /\ r_items \in RawTables
  /\ r_event = RawEvent("open", <<>>, FALSE, RawResult("Ok", <<>>))
  /\ CacheUnused
  /\ JournalUnused
  /\ SplitUnused
  /\ AdapterUnused
  /\ StoreUnused
  /\ GateUnused
  /\ StackUnused
  /\ NamespaceUnused
  /\ ServiceUnused

OutsideRaw ==
  UNCHANGED <<cacheVars, journalVars, splitVars, adapterVars, storeVars, gateVars,
              stackVars, namespaceVars, serviceVars>>

RawReadValueBytes(key, failed) ==
  /\ r_event' = RawEvent("read_value_bytes", key, failed,
                         read_value_bytes(r_items, key, failed))
  /\ UNCHANGED r_items
  /\ OutsideRaw

RawFindKeys(prefix, failed) ==
  /\ r_event' = RawEvent("find_keys_by_prefix", prefix, failed,
                         find_by_prefix(r_items, prefix, failed, FALSE))
  /\ UNCHANGED r_items
  /\ OutsideRaw

RawFindKeyValues(prefix, failed) ==
  /\ r_event' = RawEvent("find_key_values_by_prefix", prefix, failed,
                         find_by_prefix(r_items, prefix, failed, TRUE))
  /\ UNCHANGED r_items
  /\ OutsideRaw

RawNext ==
  \/ \E key \in {<<>>} \cup {<<1, i>> : i \in 1..(RawItems + 1)}, failed \in BOOLEAN :
       RawReadValueBytes(key, failed)
  \/ \E prefix \in {<<>>, <<1>>}, failed \in BOOLEAN :
       \/ RawFindKeys(prefix, failed)
       \/ RawFindKeyValues(prefix, failed)

SpecRaw == RawInit /\ [][RawNext]_rawVars

\* The error a scan of keys and values owes to an item, "Ok" if none: the
\* error of its key, or else of its value.
KeyFault(item) ==
  IF item.item_key.type = "missing" THEN "MissingKey"
  ELSE IF item.item_key.type # "B" THEN "WrongKeyType" ELSE "Ok"

ValueFault(item) ==
  IF item.item_value.type = "missing" THEN "MissingValue"
  ELSE IF item.item_value.type # "B" THEN "WrongValueType" ELSE "Ok"

ItemFault(item) == IF KeyFault(item) # "Ok" THEN KeyFault(item) ELSE ValueFault(item)

\* C28: with a valid key and an answer from the backend, read_value_bytes
\* of an item whose value attribute is missing or not binary returns
\* MissingValue or WrongValueType, and returns "no value" only when there
\* is no item; find_key_values_by_prefix over an item whose key or value
\* attribute is missing or not binary, and find_keys_by_prefix over an
\* item whose key attribute is, return the error of the first such item,
\* MissingKey, WrongKeyType, MissingValue or WrongValueType, and otherwise
\* a list with an entry for every item; a backend failure and a refused
\* key are reported as other errors.
C28_MalformedItemIsAnError ==
  LET result == r_event.result
      valid == check_key_size(Len(r_event.key)) = "Ok"
      served == valid /\ ~r_event.failed
      faults(fault(_)) == [i \in 1..Len(r_items) |-> fault(r_items[i])]
      scanned(fault(_)) ==
        /\ (\A i \in 1..Len(r_items) : fault(r_items[i]) = "Ok") =>
             (result.status = "Ok" /\ Len(result.data) = Len(r_items))
        /\ (\E i \in 1..Len(r_items) : fault(r_items[i]) # "Ok") =>
             result.status =
               faults(fault)[CHOOSE i \in 1..Len(r_items) :
                               /\ fault(r_items[i]) # "Ok"
                               /\ \A j \in 1..(i - 1) : fault(r_items[j]) = "Ok"]
  IN /\ (r_event.name = "read_value_bytes" /\ served) =>
          IF \E i \in 1..Len(r_items) : r_event.key = <<1, i>>
          THEN /\ result.status = ValueFault(r_items[r_event.key[2]])
               /\ result.status = "Ok" =>
                    result.data = r_items[r_event.key[2]].item_value.data
          ELSE result.status = "None"
     /\ (r_event.name = "find_key_values_by_prefix" /\ served) => scanned(ItemFault)
     /\ (r_event.name = "find_keys_by_prefix" /\ served) => scanned(KeyFault)
     /\ r_event.name # "open" =>
          /\ ~valid => result.status \in {"ZeroLengthKey", "KeyTooLong"}
          /\ (valid /\ r_event.failed) => result.status \in {"Get", "Query"}
          /\ result.status \in {"MissingKey", "WrongKeyType",
                                "MissingValue", "WrongValueType"} => served

\* A scan of keys and values returned MissingValue: the first item is
\* well-formed, the second has no value attribute.
C28_Witness ==
  /\ r_event.name = "find_key_values_by_prefix"
  /\ r_event.result.status = "MissingValue"
  /\ Len(r_items) = 2
  /\ ItemFault(r_items[1]) = "Ok"
  /\ r_items[2].item_value.type = "missing"

----------------------------------------------------------------------------
(* The check of a namespace name by connect, exists, create and delete of  *)
(* DynamoDbDatabaseInternal.  A name is a sequence of characters.          *)

AsciiLowercase ==
  {"a", "b", "c", "d", "e", "f", "g", "h", "i", "j", "k", "l", "m",
   "n", "o", "p", "q", "r", "s", "t", "u", "v", "w", "x", "y", "z"}

AsciiUppercase ==
  {"A", "B", "C", "D", "E", "F", "G", "H", "I", "J", "K", "L", "M",
   "N", "O", "P", "Q", "R", "S", "T", "U", "V", "W", "X", "Y", "Z"}

AsciiDigits == {"0", "1", "2", "3", "4", "5", "6", "7", "8", "9"}

\* char::is_ascii_alphanumeric
is_ascii_alphanumeric(character) ==
  character \in AsciiLowercase \cup AsciiUppercase \cup AsciiDigits

\* The characters the names are made of; the last one is not ASCII and
\* takes two bytes in UTF-8, the others take one.
NamespaceCharacters ==
  {"a", "z", "A", "Z", "0", "9", ".", "-", "_", "/", " ", "é"}

len_utf8(character) == IF character = "é" THEN 2 ELSE 1

\* str::len: the length of the name in bytes
str_len(namespace) ==
  Len(namespace) + Cardinality({i \in 1..Len(namespace) : len_utf8(namespace[i]) = 2})

NamespaceLengths == {0, 1, 2, 3, 4, 62, 63, 64, 65, 254, 255, 256}

\* The names: a lowercase letter repeated, the last character, if any,
\* being any of the characters.
Namespaces ==
  {[i \in 1..n |-> IF i = n THEN ending ELSE "a"] :
     n \in NamespaceLengths, ending \in NamespaceCharacters}

\* check_namespace
check_namespace(namespace) ==
  IF str_len(namespace) < 3 THEN "TooShort"
  ELSE IF str_len(namespace) > 255 THEN "TooLong"
  ELSE IF ~(\A i \in 1..Len(namespace) :
              \/ is_ascii_alphanumeric(namespace[i])
              \/ namespace[i] = "."
              \/ namespace[i] = "-"
              \/ namespace[i] = "_")
  THEN "InvalidCharacter"
  ELSE "Ok"

\* The errors of check_namespace.
InvalidNamespace == {"TooShort", "TooLong", "InvalidCharacter"}

\* What a call returned, with the value of an Ok that has one, and the
\* requests the call had sent to the backend.
NamespaceResult(name, result, value, sent) ==
  [value |-> value, name |-> name, result |-> result, sent |-> sent]

\* Another table of the backend.
OtherNamespace == <<"o", "-", "1">>

\* The tables the backend may hold: those whose names check_namespace
\* accepts, which are the names of tables of DynamoDB.
TableNames(namespace) ==
  {table \in {namespace, OtherNamespace} : check_namespace(table) = "Ok"}

\* The orders list_tables may give the tables in.
Listings(tables) ==
  {listing \in [1..Cardinality(tables) -> tables] :
     \A i, j \in 1..Cardinality(tables) : listing[i] = listing[j] => i = j}

NamespaceInit ==
  /\ n_namespace \in Namespaces
  /\ n_result = NamespaceResult("unchecked", "Ok", None, <<>>)
  /\ n_tables \in SUBSET TableNames(n_namespace)
  /\ n_pending = <<>>
  /\ CacheUnused
  /\ JournalUnused
  /\ SplitUnused
  /\ AdapterUnused
  /\ StoreUnused
  /\ GateUnused
  /\ StackUnused
  /\ RawUnused
  /\ ServiceUnused

OutsideNamespace ==
  UNCHANGED <<cacheVars, journalVars, splitVars, adapterVars, storeVars, gateVars,
              stackVars, rawVars, serviceVars>>

\* connect: the name is checked; no request is sent.
NamespaceConnect ==
  /\ n_result' =
       NamespaceResult("connect", check_namespace(n_namespace), None, <<>>)
  /\ UNCHANGED <<n_namespace, n_tables, n_pending>>
  /\ OutsideNamespace

\* exists: the name is checked, then get_item is sent to the table:
\* true if the request is served, false if the table is not there.
NamespaceExists(failed) ==
  /\ n_result' =
       IF check_namespace(n_namespace) # "Ok"
       THEN NamespaceResult("exists", check_namespace(n_namespace), None, <<>>)
       ELSE IF failed
       THEN NamespaceResult("exists", "Get", None, <<"get_item">>)
       ELSE NamespaceResult("exists", "Ok", Some(n_namespace \in n_tables),
                            <<"get_item">>)
  /\ UNCHANGED <<n_namespace, n_tables, n_pending>>
  /\ OutsideNamespace

\* create: the name is checked, then create_table is sent, which fails
\* when the table is there.
NamespaceCreate(failed) ==
  /\ IF check_namespace(n_namespace) # "Ok"
     THEN /\ n_result' = NamespaceResult("create", check_namespace(n_namespace),
                                         None, <<>>)
          /\ UNCHANGED n_tables
     ELSE IF failed \/ n_namespace \in n_tables
     THEN /\ n_result' = NamespaceResult("create", "CreateTable", None,
                                         <<"create_table">>)
          /\ UNCHANGED n_tables
     ELSE /\ n_result' = NamespaceResult("create", "Ok", None,
                                         <<"create_table">>)
          /\ n_tables' = n_tables \cup {n_namespace}
  /\ UNCHANGED <<n_namespace, n_pending>>
  /\ OutsideNamespace

\* delete: the name is checked, then delete_table is sent, which fails
\* when the table is not there.
NamespaceDelete(failed) ==
  /\ IF check_namespace(n_namespace) # "Ok"
     THEN /\ n_result' = NamespaceResult("delete", check_namespace(n_namespace),
                                         None, <<>>)
          /\ UNCHANGED n_tables
     ELSE IF failed \/ n_namespace \notin n_tables
     THEN /\ n_result' = NamespaceResult("delete", "DeleteTable", None,
                                         <<"delete_table">>)
          /\ UNCHANGED n_tables
     ELSE /\ n_result' = NamespaceResult("delete", "Ok", None,
                                         <<"delete_table">>)
          /\ n_tables' = n_tables \ {n_namespace}
  /\ UNCHANGED <<n_namespace, n_pending>>
  /\ OutsideNamespace

\* delete_all begins: list_all asks for the tables; with none to delete
\* the call returns.
NamespaceDeleteAllLists(failed, listing) ==
  /\ n_pending = <<>>
  /\ IF failed
     THEN /\ n_result' = NamespaceResult("delete_all", "ListTables", None,
                                         <<"list_tables">>)
          /\ UNCHANGED n_pending
     ELSE IF listing = <<>>
     THEN /\ n_result' = NamespaceResult("delete_all", "Ok", None,
                                         <<"list_tables">>)
          /\ UNCHANGED n_pending
     ELSE /\ n_pending' = <<[rest |-> listing, sent |-> <<"list_tables">>]>>
          /\ UNCHANGED n_result
  /\ UNCHANGED <<n_namespace, n_tables>>
  /\ OutsideNamespace

\* delete_all goes on: delete_table is sent for the next table listed;
\* after the last one, or a request that fails, the call returns.
NamespaceDeleteAllDeletes(failed) ==
  /\ n_pending # <<>>
  /\ LET table == Head(n_pending[1].rest)
         rest == Tail(n_pending[1].rest)
         sent == Append(n_pending[1].sent, "delete_table")
     IN IF failed \/ table \notin n_tables
        THEN /\ n_result' = NamespaceResult("delete_all", "DeleteTable", None,
                                            sent)
             /\ n_pending' = <<>>
             /\ UNCHANGED n_tables
        ELSE /\ n_tables' = n_tables \ {table}
             /\ IF rest = <<>>
                THEN /\ n_result' = NamespaceResult("delete_all", "Ok", None,
                                                    sent)
                     /\ n_pending' = <<>>
                ELSE /\ n_pending' = <<[rest |-> rest, sent |-> sent]>>
                     /\ UNCHANGED n_result
  /\ UNCHANGED n_namespace
  /\ OutsideNamespace

NamespaceNext ==
  \/ NamespaceConnect
  \/ \E failed \in BOOLEAN : NamespaceExists(failed)
  \/ \E failed \in BOOLEAN : NamespaceCreate(failed)
  \/ \E failed \in BOOLEAN : NamespaceDelete(failed)
  \/ \E failed \in BOOLEAN, listing \in Listings(n_tables) :
       NamespaceDeleteAllLists(failed, listing)
  \/ \E failed \in BOOLEAN : NamespaceDeleteAllDeletes(failed)

SpecNamespace == NamespaceInit /\ [][NamespaceNext]_namespaceVars

\* The calls that check the name they are given.
NameWasChecked == n_result.name \in {"connect", "exists", "create", "delete"}

\* The name went through check_namespace.
NameWasAccepted == n_result.result \notin InvalidNamespace

\* The characters the error message of InvalidCharacter allows.
Advertised(character) ==
  \/ character \in AsciiLowercase
  \/ character \in AsciiDigits
  \/ character = "."
  \/ character = "-"

\* C29: a name that was checked is accepted only if it has at least 3 and
\* at most 63 characters; a name of allowed characters that is shorter is
\* rejected with TooShort, one that is longer with TooLong.
C29_LengthBetween3And63 ==
  NameWasChecked =>
    /\ NameWasAccepted => (Len(n_namespace) >= 3 /\ Len(n_namespace) <= 63)
    /\ (\A i \in 1..Len(n_namespace) : Advertised(n_namespace[i])) =>
         /\ Len(n_namespace) < 3 => n_result.result = "TooShort"
         /\ Len(n_namespace) > 63 => n_result.result = "TooLong"

\* A name of 64 lowercase letters was checked and accepted.
C29_Witness ==
  /\ n_result.name = "connect"
  /\ n_result.result = "Ok"
  /\ Len(n_namespace) = 64
  /\ \A i \in 1..Len(n_namespace) : n_namespace[i] = "a"

\* C30: a name that was checked is accepted only if every character of it
\* is a lowercase letter, a number, a period or a hyphen; a name with
\* another character, when not rejected for its length, is rejected with
\* InvalidCharacter.
C30_OnlyLowercaseDigitsPeriodHyphen ==
  NameWasChecked =>
    /\ NameWasAccepted =>
         \A i \in 1..Len(n_namespace) : Advertised(n_namespace[i])
    /\ ((\E i \in 1..Len(n_namespace) : ~Advertised(n_namespace[i]))
        /\ n_result.result \notin {"TooShort", "TooLong"}) =>
         n_result.result = "InvalidCharacter"

\* A name of three characters ending in an uppercase letter, or in an
\* underscore, was checked and accepted, and its table was created.
C30_Witness ==
  /\ n_result.name = "create"
  /\ n_result.result = "Ok"
  /\ n_namespace \in n_tables
  /\ Len(n_namespace) = 3
  /\ n_namespace[3] \in {"A", "_"}

----------------------------------------------------------------------------
(* write_batch of DynamoDbStoreInternal, call by call: a store handle and   *)
(* its clone, over a partition that holds any items, are called with a      *)
(* batch each, and the calls return.  The state and the steps are those of  *)
(* the adapter above; the call that returned keeps its batch.               *)

WriteValueLens ==
  {0, VISIBLE_MAX_VALUE_SIZE, VISIBLE_MAX_VALUE_SIZE + 1,
   RAW_MAX_VALUE_SIZE, RAW_MAX_VALUE_SIZE + 1}

WritePuts == [value : WriteValueLens, key : KeyLens]

\* The value lengths an item of the partition can have; -1 is no item.
StoredLens == {-1} \cup {v \in WriteValueLens : v <= RAW_MAX_VALUE_SIZE}

WritesInit ==
  /\ a_written \in BOOLEAN
  /\ a_table \in [ValidKeyLens -> StoredLens]
  /\ a_event = WriteIdle
  /\ a_start \in StartKeyLens
  /\ a_call = [task \in Callers |-> CallIdle]
  /\ CacheUnused
  /\ JournalUnused
  /\ SplitUnused
  /\ DynamoUnused
  /\ ServiceUnused

\* write_batch, by the handle and by its clone, and the answers of the
\* backend to their requests.
WritesNext ==
  \/ AdapterReturned
  \/ \E task \in Callers :
       /\ a_event = WriteIdle
       /\ a_call[task] = CallIdle
       /\ \E deletions \in SeqsUpTo(KeyLens, AdapterBatch),
             insertions \in SeqsUpTo(WritePuts, AdapterBatch) :
            AdapterWriteBatch(task, deletions, insertions)
  \/ \E task \in Callers, failed \in BOOLEAN : AdapterRegistered(task, failed)
  \/ \E task \in Callers, failed \in BOOLEAN : AdapterWritten(task, failed)

SpecWrites == WritesInit /\ [][WritesNext]_adapterVars

ValidationErrors == {"ZeroLengthKey", "KeyTooLong", "ValueLengthTooLarge"}

\* A key is empty or longer than MAX_KEY_SIZE.
KeyOutside(key) == key = 0 \/ key > MAX_KEY_SIZE

\* Every key of the batch of the last call is within the limits.
KeysValid(event) ==
  /\ \A i \in 1..Len(event.deletions) : ~KeyOutside(event.deletions[i])
  /\ \A i \in 1..Len(event.insertions) : ~KeyOutside(event.insertions[i].key)

\* The insertions of the batch whose value is longer than the raw limit.
OverRaw(event) ==
  {i \in 1..Len(event.insertions) : event.insertions[i].value > RAW_MAX_VALUE_SIZE}

\* The value of the i-th insertion is the first thing of the batch
\* outside the limits, in the order of the builder: every deletion key,
\* then for each insertion its key and then its value.
FirstOutside(event, i) ==
  /\ i \in OverRaw(event)
  /\ \A j \in 1..Len(event.deletions) : ~KeyOutside(event.deletions[j])
  /\ \A j \in 1..i : ~KeyOutside(event.insertions[j].key)
  /\ \A j \in 1..(i - 1) : j \notin OverRaw(event)

\* The call that returned had sent the transaction of its batch: a second
\* request, or the only request of a call that did not register the root
\* key.
DataSent(event) ==
  \/ Len(event.sent) = 2
  \/ ~event.fresh /\ Len(event.sent) = 1

\* The call that returned had set root_key_written and never got to its
\* builder: its start key did not pass the check, and nothing was sent, or
\* the request that registers the root key failed.
ReturnedUnbuilt(event) ==
  /\ event.fresh
  /\ \/ /\ check_key_size(a_start) # "Ok"
        /\ event.result = check_key_size(a_start)
        /\ event.sent = <<>>
     \/ /\ event.result = "TransactWriteItem"
        /\ event.sent = <<"transact_write_items">>

\* C31, as the claim states it: a write_batch whose keys are valid, that
\* got to its builder with every request answered, and that holds an
\* insertion with a value longer than the MAX_VALUE_SIZE the store
\* declares returns ValueLengthTooLarge.
C31_DeclaredLimitIsEnforced ==
  (/\ a_event.name = "write_batch"
   /\ KeysValid(a_event)
   /\ a_event.result # "TransactWriteItem"
   /\ ~ReturnedUnbuilt(a_event)
   /\ \E i \in 1..Len(a_event.insertions) :
        a_event.insertions[i].value > VISIBLE_MAX_VALUE_SIZE)
    => a_event.result = "ValueLengthTooLarge"

\* C31, amended: a write_batch with an insertion whose value is longer
\* than RAW_MAX_VALUE_SIZE returns an error, sends no transaction of the
\* batch and leaves the partition as it was, whatever its keys are; the
\* error is ValueLengthTooLarge exactly when the call got to its builder
\* and such a value is the first thing of the batch outside the limits;
\* a batch with no such value and valid keys that got to its builder is
\* sent, values between the declared and the raw limit included; an
\* accepted insertion is stored with the length it has, when no later
\* insertion of the batch has its key, and no item is ever longer than
\* RAW_MAX_VALUE_SIZE.
C31_RawLimitIsEnforced ==
  [][a_event'.name = "write_batch" =>
       /\ OverRaw(a_event') # {} =>
            /\ \/ a_event'.result \in ValidationErrors
               \/ ReturnedUnbuilt(a_event')
            /\ ~DataSent(a_event')
            /\ a_table' = a_table
       /\ ~ReturnedUnbuilt(a_event') =>
            (a_event'.result = "ValueLengthTooLarge"
               <=> \E i \in OverRaw(a_event') : FirstOutside(a_event', i))
       /\ (OverRaw(a_event') = {} /\ KeysValid(a_event')
           /\ ~ReturnedUnbuilt(a_event')) =>
            /\ a_event'.result \in {"Ok", "TransactWriteItem"}
            /\ Len(a_event'.deletions) + Len(a_event'.insertions) > 0 =>
                 DataSent(a_event')
       /\ a_event'.result = "ValueLengthTooLarge" => a_table' = a_table
       /\ a_event'.result = "Ok" =>
            \A i \in 1..Len(a_event'.insertions) :
              (\A j \in (i + 1)..Len(a_event'.insertions) :
                 a_event'.insertions[j].key # a_event'.insertions[i].key)
                => a_table'[a_event'.insertions[i].key] = a_event'.insertions[i].value
       /\ \A k \in ValidKeyLens : a_table'[k] <= RAW_MAX_VALUE_SIZE]_adapterVars

\* A write_batch with an insertion one byte longer than the declared
\* MAX_VALUE_SIZE returned Ok, and the item is stored with that length.
C31_Witness ==
  /\ a_event.name = "write_batch"
  /\ a_event.result = "Ok"
  /\ a_event.insertions = <<[value |-> VISIBLE_MAX_VALUE_SIZE + 1, key |-> 1]>>
  /\ a_table[1] = VISIBLE_MAX_VALUE_SIZE + 1
  /\ VISIBLE_MAX_VALUE_SIZE + 1 = 408570

----------------------------------------------------------------------------
(* The key check of the reads of the adapter (SpecReads). *)

ReadNames ==
  {"read_value_bytes", "contains_key", "contains_keys", "read_multi_values_bytes",
   "find_keys_by_prefix", "find_key_values_by_prefix"}

FindNames == {"find_keys_by_prefix", "find_key_values_by_prefix"}

\* C32: check_key_size accepts a key exactly when its length is between 1
\* and MAX_KEY_SIZE = 1024; a read, a bulk read or a scan with a key or
\* prefix that is empty or longer returns ZeroLengthKey or KeyTooLong and
\* has sent no request to the backend, for none of its keys, and a read
\* that waits for the backend has no such key; with keys and prefixes
\* within the limits it sends get_item requests, one per key, or queries,
\* at least one, and returns Ok or the error of a request that failed.
C32_ReadsCheckEveryKeyFirst ==
  /\ MAX_KEY_SIZE = 1024
  /\ \A key \in KeyLens :
       check_key_size(key) = "Ok" <=> (key >= 1 /\ key <= 1024)
  /\ \A task \in Callers :
       a_call[task].name \in ReadNames =>
         /\ ~BadKey(a_call[task].key_list)
         /\ a_call[task].name \notin FindNames =>
              Len(a_call[task].sent) = Len(a_call[task].key_list)
  /\ a_event.name \in ReadNames =>
       /\ a_event.bad =>
            /\ a_event.result \in {"ZeroLengthKey", "KeyTooLong"}
            /\ a_event.sent = <<>>
       /\ ~a_event.bad =>
            /\ a_event.result
                 \in {"Ok", IF a_event.name \in FindNames THEN "Query" ELSE "Get"}
            /\ \A i \in 1..Len(a_event.sent) :
                 a_event.sent[i]
                   = (IF a_event.name \in FindNames THEN "query" ELSE "get_item")
            /\ a_event.name \in {"read_value_bytes", "contains_key"} =>
                 Len(a_event.sent) = 1
            /\ a_event.name \in FindNames => Len(a_event.sent) >= 1
            /\ a_event.sent = <<>> => a_event.result = "Ok"

\* A bulk read with a key longer than MAX_KEY_SIZE returned KeyTooLong and
\* sent nothing.
C32_Witness ==
  /\ a_event.name = "read_multi_values_bytes"
  /\ a_event.bad
  /\ a_event.result = "KeyTooLong"
  /\ a_event.sent = <<>>

----------------------------------------------------------------------------
(* A batch that fails validation (SpecWrites). *)

\* A key or a value of the batch of a call is outside the limits.
InvalidBatch(event) == ~KeysValid(event) \/ OverRaw(event) # {}

\* C33, as the claim states it: a write_batch with a deletion key, an
\* insertion key or an insertion value outside the limits returns a
\* validation error, sends no transaction of the batch and leaves every
\* item of the partition as it was; a write_batch with no deletion and no
\* insertion sends no transaction of the batch.
C33_InvalidBatchChangesNothing ==
  [][a_event'.name = "write_batch" =>
       /\ InvalidBatch(a_event') =>
            /\ a_event'.result \in ValidationErrors
            /\ a_table' = a_table
            /\ ~DataSent(a_event')
       /\ (a_event'.deletions = <<>> /\ a_event'.insertions = <<>>) =>
            ~DataSent(a_event')]_adapterVars

\* The first write_batch of a handle, with an insertion under a key longer
\* than MAX_KEY_SIZE, returned the error of the backend: the request that
\* registers the root key was sent before the batch was checked, and it
\* failed.
C33_Witness ==
  /\ a_event.name = "write_batch"
  /\ a_event.fresh
  /\ a_event.deletions = <<>>
  /\ a_event.insertions = <<[value |-> 0, key |-> MAX_KEY_SIZE + 1]>>
  /\ a_event.result = "TransactWriteItem"
  /\ a_event.sent = <<"transact_write_items">>

----------------------------------------------------------------------------
(* find_keys_by_prefix and find_key_values_by_prefix of a store, page by    *)
(* page.  The table holds the items of the store's partition and of         *)
(* another one, in the order of their keys; get_list_responses queries the  *)
(* backend until a page carries no last_evaluated_key, and the pages are    *)
(* read through QueryResponses.  The state is that of the reads above: the  *)
(* items, and the scan in place of the last call.                           *)

\* The items of a page: at most this many.
ScanPage == 1

\* The pages of a scan that carry a last_evaluated_key although no item is
\* left to return: at most this many.
ScanSpare == 1

\* The partition of the store that scans, and another one.
ScanStartKey == open_shared(<<1>>).start_key

ScanItem(partition_key, key) ==
  [partition |-> partition_key,
   item_key |-> Attribute("B", key),
   item_value |-> Attribute("B", partition_key \o key)]

\* Every item there can be, in the order of the keys.
ScanUniverse ==
  <<ScanItem(open_shared(<<>>).start_key, <<1>>),
    ScanItem(ScanStartKey, <<1>>),
    ScanItem(ScanStartKey, <<1, 2>>),
    ScanItem(ScanStartKey, <<2>>)>>

RECURSIVE Chosen(_, _)
Chosen(items, chosen) ==
  IF items = <<>> THEN <<>>
  ELSE (IF Head(chosen) THEN <<Head(items)>> ELSE <<>>)
         \o Chosen(Tail(items), Tail(chosen))

ScanTables ==
  {Chosen(ScanUniverse, chosen) : chosen \in [1..Len(ScanUniverse) -> BOOLEAN]}

ScanPrefixes == {<<>>, <<1>>, <<1, 2>>, <<2>>, <<3>>}

\* The key condition of the query: the items of the partition whose key
\* begins with the prefix, in the order of the keys.
RECURSIVE Matches(_, _, _)
Matches(items, start_key, prefix) ==
  IF items = <<>> THEN <<>>
  ELSE (IF /\ Head(items).partition = start_key
           /\ IsPrefix(prefix, Head(items).item_key.data)
        THEN <<Head(items)>> ELSE <<>>)
         \o Matches(Tail(items), start_key, prefix)

\* A QueryOutput: its items and its last_evaluated_key, the number of items
\* of the scan returned so far.
QueryOutput(items, last_evaluated_key) ==
  [items |-> items, last_evaluated_key |-> last_evaluated_key]

\* responses.iter().flat_map(|response| response.items.iter().flatten())
RECURSIVE Flattened(_)
Flattened(responses) ==
  IF responses = <<>> THEN <<>>
  ELSE Head(responses).items \o Flattened(Tail(responses))

\* QueryResponses::keys and QueryResponses::key_values, collected
QueryResponses(prefix_len, responses, with_value) ==
  Collected([i \in 1..Len(Flattened(responses)) |->
               IF with_value
               THEN extract_key_value(prefix_len, Flattened(responses)[i])
               ELSE extract_key(prefix_len, Flattened(responses)[i])])

Scan(name, prefix, pc, start_key_map, responses, spare, result) ==
  [name |-> name, result |-> result, pc |-> pc, prefix |-> prefix,
   responses |-> responses, start_key_map |-> start_key_map, spare |-> spare]

ScanIdle == Scan("open", <<>>, "idle", None, <<>>, 0, RawResult("Ok", <<>>))

ScanInit ==
  /\ r_items \in ScanTables
  /\ r_event = ScanIdle
  /\ CacheUnused
  /\ JournalUnused
  /\ SplitUnused
  /\ AdapterUnused
  /\ StoreUnused
  /\ GateUnused
  /\ StackUnused
  /\ NamespaceUnused
  /\ ServiceUnused

\* get_list_responses begins: the prefix is checked
ScanBegins(name, prefix) ==
  /\ r_event.pc # "scanning"
  /\ r_event' =
       IF check_key_size(Len(prefix)) # "Ok"
       THEN Scan(name, prefix, "done", None, <<>>, 0,
                 RawResult(check_key_size(Len(prefix)), <<>>))
       ELSE Scan(name, prefix, "scanning", None, <<>>, 0, RawResult("Ok", <<>>))
  /\ UNCHANGED r_items
  /\ OutsideRaw

\* One turn of the loop: the query from start_key_map returns a page of
\* the items that follow, which is pushed; with a last_evaluated_key the
\* loop goes on from it, without one the responses are read.
ScanPageReturned(count, more) ==
  LET matches == Matches(r_items, ScanStartKey, r_event.prefix)
      from == IF r_event.start_key_map = None THEN 0 ELSE r_event.start_key_map[1]
      response == QueryOutput(SubSeq(matches, from + 1, from + count),
                              IF more THEN Some(from + count) ELSE None)
      responses == Append(r_event.responses, response)
      left == Len(matches) - (from + count)
  IN /\ r_event.pc = "scanning"
     /\ from + count <= Len(matches)
     /\ ~more => left = 0
     /\ (more /\ left = 0) => r_event.spare < ScanSpare
     /\ (more /\ left > 0) => count > 0
     /\ r_event' =
          IF more
          THEN [r_event EXCEPT !.start_key_map = response.last_evaluated_key,
                               !.responses = responses,
                               !.spare = IF left = 0 THEN @ + 1 ELSE @]
          ELSE [r_event EXCEPT !.pc = "done",
                               !.responses = responses,
                               !.result =
                                 QueryResponses(Len(r_event.prefix), responses,
                                                r_event.name = "find_key_values_by_prefix")]
     /\ UNCHANGED r_items
     /\ OutsideRaw

\* The query fails: `?` returns the error.
ScanFails ==
  /\ r_event.pc = "scanning"
  /\ r_event' = [r_event EXCEPT !.pc = "done", !.result = RawResult("Query", <<>>)]
  /\ UNCHANGED r_items
  /\ OutsideRaw

ScanTurn ==
  \/ \E count \in 0..ScanPage, more \in BOOLEAN : ScanPageReturned(count, more)
  \/ ScanFails

ScanNext ==
  \/ \E name \in {"find_keys_by_prefix", "find_key_values_by_prefix"},
        prefix \in ScanPrefixes :
       ScanBegins(name, prefix)
  \/ ScanTurn

SpecScan == ScanInit /\ [][ScanNext]_rawVars

\* The scan is a task that is polled as long as it has a turn to take, and
\* the backend answers every query.
SpecScanFair == SpecScan /\ WF_rawVars(ScanTurn)

\* What a scan owes its caller: of the items of the table, in their order,
\* those of the store's partition whose key begins with the prefix, each
\* as its key without the prefix, with its value if values are asked for.
RECURSIVE Owed(_, _, _)
Owed(items, prefix, with_value) ==
  IF items = <<>> THEN <<>>
  ELSE (IF /\ Head(items).partition = ScanStartKey
           /\ Len(Head(items).item_key.data) >= Len(prefix)
           /\ \A i \in 1..Len(prefix) : Head(items).item_key.data[i] = prefix[i]
        THEN LET rest == [i \in 1..(Len(Head(items).item_key.data) - Len(prefix)) |->
                            Head(items).item_key.data[Len(prefix) + i]]
             IN IF with_value
                THEN <<<<rest, Head(items).item_value.data>>>>
                ELSE <<rest>>
        ELSE <<>>)
         \o Owed(Tail(items), prefix, with_value)

\* C34: a scan that returned Ok returned, for exactly the items of the
\* store's partition whose key begins with the prefix, in order, the key
\* without the prefix (and the value); its result is what the pages hold,
\* taken in order; every page but the last carried a continuation key and
\* the last carried none; and a scan that has begun returns.
C34_ScanReturnsThePartitionByPages ==
  /\ [](r_event.pc = "done" /\ r_event.result.status = "Ok" =>
          /\ r_event.result.data =
               Owed(r_items, r_event.prefix, r_event.name = "find_key_values_by_prefix")
          /\ r_event.result.data =
               QueryResponses(Len(r_event.prefix), r_event.responses,
                              r_event.name = "find_key_values_by_prefix").data
          /\ Len(r_event.responses) >= 1
          /\ \A i \in 1..Len(r_event.responses) :
               (r_event.responses[i].last_evaluated_key = None)
                 <=> (i = Len(r_event.responses)))
  /\ [](r_event.pc = "scanning" =>
          \A i \in 1..Len(r_event.responses) :
            r_event.responses[i].last_evaluated_key # None)
  /\ (r_event.pc = "scanning") ~> (r_event.pc = "done")

\* A scan of keys and values over the prefix <<1>> returned, from three
\* pages, the two items of the partition that begin with it, while the
\* other partition holds an item of that key.
C34_Witness ==
  /\ r_event.pc = "done"
  /\ r_event.name = "find_key_values_by_prefix"
  /\ r_event.prefix = <<1>>
  /\ Len(r_event.responses) = 3
  /\ r_event.result = RawResult("Ok", <<<<<<>>, ScanStartKey \o <<1>>>>,
                                        <<<<2>>, ScanStartKey \o <<1, 2>>>>>>)
  /\ Len(r_items) = 4

----------------------------------------------------------------------------
(* The root keys listed (SpecStore). *)

\* The request that registers the root key of a handle was applied.
Registered(h) ==
  \E it \in d_items :
    it.partition = PARTITION_KEY_ROOT_KEY /\ it.key = d_handle[h].start_key

\* C35: list_root_keys returns the root key of every handle whose
\* registration was applied, as it was passed to open_shared, the empty
\* root key as the empty byte string; it returns one root key for every
\* item of the partition of the root keys, and no two items for one root
\* key, however many handles registered it; and it returns only root keys
\* of handles on which write_batch was called.
C35_ListRootKeysIsExact ==
  /\ \A h \in Handles :
       Registered(h) => root_key_of(d_handle[h]) \in list_root_keys(d_items)
  /\ Cardinality({it \in d_items : it.partition = PARTITION_KEY_ROOT_KEY})
       = Cardinality(list_root_keys(d_items))
  /\ list_root_keys(d_items)
       \subseteq {root_key_of(d_handle[h]) : h \in {g \in Handles : d_written[g]}}

\* Two handles of the empty root key have both registered it, and
\* list_root_keys returns the empty byte string, once.
C35_Witness ==
  /\ \A h \in Handles : root_key_of(d_handle[h]) = <<>> /\ d_written[h]
  /\ \A t \in StoreTasks : d_call[t].pc = "idle"
  /\ d_event.name = "write_batch"
  /\ list_root_keys(d_items) = {<<>>}
  /\ Cardinality({it \in d_items : it.partition = PARTITION_KEY_ROOT_KEY}) = 1

----------------------------------------------------------------------------
(* insert_all against insert, value by value (Spec). *)

\* insert called on each value of a list, from first to last.
RECURSIVE InsertEach(_, _)
InsertEach(c, values) ==
  IF values = <<>> THEN c
  ELSE InsertEach(insert(c, Head(values)).cache, Tail(values))

\* C36, as the claim states it: insert_all(values) leaves the cache with
\* the keys, the values and the recency order that insert called on each
\* value in order leaves it with; so does each turn of its loop, which
\* runs with the Mutex held.
C36_InsertAllIsInsertOnEach ==
  [][/\ op' = "insert_all" => insert_all(cache, arg') = InsertEach(cache, arg')
     /\ op' = "insert_all_item" => cache' = insert(cache, arg'[2]).cache]_vars

\* A turn of insert_all has skipped a value whose key is cached, and the
\* key is not the most recently used, as insert would have made it.
C36_Witness ==
  /\ op = "insert_all_item"
  /\ ret = FALSE
  /\ LruContains(cache, arg[1])
  /\ cache.items[1].key # arg[1]
  /\ insert(cache, arg[2]).cache # cache

----------------------------------------------------------------------------
(* try_get_many among concurrent callers (SpecThreads). *)

\* The place of the last occurrence of a key in a list of keys.
LastPos(key_list, k) == Max({i \in 1..Len(key_list) : key_list[i] = k})

\* C37: between the partition of try_get_many and its fetch of the values
\* every key it classified as found is cached; the fetch does not panic,
\* returns a pair for every cached key of the input and the other keys as
\* not found; it leaves the cached keys, their values and the size of the
\* cache as they were, puts the found keys in front of the others, the
\* key that occurs last in the input first, and keeps the order of the
\* others.
C37_TryGetManyOnlyPromotes ==
  [][\A t \in Threads :
       (t_pc[t] = "checked" /\ t_call[t].op = "try_get_many") =>
         LET key_list == t_call[t].ks
             found_keys == Range(key_list) \cap KeySet(cache)
         IN /\ owner = t
            /\ Range(t_local[t].found) = found_keys
            /\ t_pc'[t] = "done" =>
                 /\ ~t_ret'[t].panic
                 /\ t_ret'[t].found =
                      [i \in 1..Len(SelectSeq(key_list, LAMBDA k : k \in found_keys)) |->
                         <<SelectSeq(key_list, LAMBDA k : k \in found_keys)[i],
                           LruPeek(cache,
                                   SelectSeq(key_list, LAMBDA k : k \in found_keys)[i])[1]>>]
                 /\ t_ret'[t].not_found = SelectSeq(key_list, LAMBDA k : k \notin found_keys)
                 /\ KeySet(cache') = KeySet(cache)
                 /\ Len(cache'.items) = Len(cache.items)
                 /\ cache'.cap = cache.cap
                 /\ \A k \in KeySet(cache) : LruPeek(cache', k) = LruPeek(cache, k)
                 /\ \A i \in 1..Cardinality(found_keys) : cache'.items[i].key \in found_keys
                 /\ \A k \in found_keys, j \in found_keys :
                      LastPos(key_list, k) < LastPos(key_list, j) =>
                        LruIndex(cache', j) < LruIndex(cache', k)
                 /\ SelectSeq(cache'.items, LAMBDA e : e.key \notin found_keys)
                      = SelectSeq(cache.items, LAMBDA e : e.key \notin found_keys)
    ]_threadView

\* A try_get_many with a repeated key, called while another thread removed
\* another key, found the key twice and made it the most recently used.
C37_Witness ==
  \E t \in Threads, u \in Threads :
    /\ AllDone
    /\ t_call[t].op = "try_get_many"
    /\ t_call[t].ks = <<"a", "a">>
    /\ Len(t_ret[t].found) = 2
    /\ t_call[u].op = "remove"
    /\ t_call[u].key = "b"
    /\ cache0.items[1].key = "b"
    /\ cache.items[1].key = "a"

----------------------------------------------------------------------------
(***************************************************************************)
(* The faucet's wide multiplication (src/linera-faucet/server/src/lib.rs). *)
(*                                                                         *)
(* multiply takes a u128 and a u64 and returns their product as three u64  *)
(* limbs; do_claim compares two such products as arrays.  The model keeps  *)
(* the code's structure and its wrap-around, and scales the width of a     *)
(* limb from 64 bits down to LimbBits, so that the arguments can be        *)
(* enumerated: a u64 is a number below Limb, a u128 a number below Wide.   *)
(***************************************************************************)

\* The bits of one limb.
LimbBits == 2

\* u64::MAX + 1 and u128::MAX + 1 at that width.
Limb == 2 ^ LimbBits
Wide == Limb * Limb

U64 == 0 .. Limb - 1
U128 == 0 .. Wide - 1

\* multiply without the carry of the low product into the high one.
multiply_no_carry(a, b) ==
  LET a1 == ((a \div Limb) * b) % Wide
      a0 == ((a % Limb) * b) % Wide
  IN <<(a1 \div Limb) % Limb, a1 % Limb, a0 % Limb>>

\* multiply: `a & lower` is a % Limb, `a >> 64` is a \div Limb, every u128
\* operation wraps at Wide, and `as u64` keeps the low limb.
multiply(a, b) ==
  LET a1 == ((a \div Limb) * b) % Wide
      a0 == ((a % Limb) * b) % Wide
      a1_carried == (a1 + (a0 \div Limb)) % Wide
  IN <<(a1_carried \div Limb) % Limb, a1_carried % Limb, a0 % Limb>>

\* The comparison `>` of two [u64; 3]: the order of arrays, lexicographic.
limbs_gt(x, y) ==
  \/ x[1] > y[1]
  \/ x[1] = y[1] /\ x[2] > y[2]
  \/ x[1] = y[1] /\ x[2] = y[2] /\ x[3] > y[3]

\* The number three limbs stand for, the most significant first.
LimbsValue(x) == x[1] * Wide + x[2] * Limb + x[3]

\* Whether a step of multiply(a, b) leaves the width of its type: one of
\* the u128 operations, or a cast to u64.
Overflows(a, b) ==
  LET a1 == (a \div Limb) * b
      a0 == (a % Limb) * b
      a1_carried == a1 + (a0 \div Limb)
  IN \/ a1 >= Wide
     \/ a0 >= Wide
     \/ a1_carried >= Wide
     \/ a1_carried \div Limb >= Limb

ProductInit ==
  /\ m_args \in [left : U128 \X U64, right : U128 \X U64]
  /\ m_result = <<>>
  /\ CacheUnused
  /\ JournalUnused
  /\ SplitUnused
  /\ AdapterUnused
  /\ DynamoUnused
  /\ FaucetUnused
  /\ BatchUnused

OutsideProduct ==
  UNCHANGED <<cacheVars, journalVars, splitVars, adapterVars, dynamoVars,
              faucetVars, batchVars>>

\* The comparison of do_claim: both products, then the order of the arrays.
Compare ==
  /\ m_result = <<>>
  /\ LET left == multiply(m_args.left[1], m_args.left[2])
         right == multiply(m_args.right[1], m_args.right[2])
     IN m_result' = [left |-> left, right |-> right,
                     greater |-> limbs_gt(left, right)]
  /\ UNCHANGED m_args
  /\ OutsideProduct

ProductNext == Compare

SpecProduct == ProductInit /\ [][ProductNext]_productVars

\* C39: multiply(a, b) is the product a * b as three limbs, the most
\* significant first, no step of it leaves the width of its type, and the
\* order of two results as arrays is the order of the two products.
C39_MultiplyIsExact ==
  m_result # <<>> =>
    LET a == m_args.left[1]
        b == m_args.left[2]
        c == m_args.right[1]
        d == m_args.right[2]
    IN /\ LimbsValue(m_result.left) = a * b
       /\ LimbsValue(m_result.right) = c * d
       /\ \A i \in 1..3 : m_result.left[i] \in U64 /\ m_result.right[i] \in U64
       /\ ~Overflows(a, b) /\ ~Overflows(c, d)
       /\ m_result.greater <=> a * b > c * d

\* Both products fill the top limb and agree on it, the low product of the
\* left one carries into its high one, and the lower limbs decide.
C39_Witness ==
  /\ m_result # <<>>
  /\ m_result.left[1] > 0
  /\ m_result.left[1] = m_result.right[1]
  /\ m_result.left[2] < m_result.right[2]
  /\ ((m_args.left[1] % Limb) * m_args.left[2]) \div Limb > 0
  /\ ~m_result.greater

----------------------------------------------------------------------------
(***************************************************************************)
(* The faucet (src/linera-faucet/server/src/lib.rs): claim requests served *)
(* concurrently on one chain.                                              *)
(*                                                                         *)
(* do_claim suspends where it awaits: for the local balance and for        *)
(* open_chain.  The lock on the context is held only while the chain       *)
(* client is made, so the requests interleave at those points.  The chain  *)
(* client is not part of the sources: open_chain is taken to commit a      *)
(* block that moves `amount` from the faucet's chain to the new chain when *)
(* the balance covers it, with no fees, and the clock to move forward.     *)
(***************************************************************************)

\* The largest start balance, the last instant of the clock, the requests
\* served at a time.  Amounts are u128 and times u64 at the width of the
\* model: FaucetMaxBalance < Wide and FaucetMaxTime < Limb.
FaucetMaxBalance == 4
FaucetMaxTime == 3
FaucetTasks == 2

FaucetRequests == 1..FaucetTasks
FaucetAmounts == 1..2
Timestamps == 0..FaucetMaxTime

\* Timestamp::delta_since(..).as_micros(): the time from `other` on, zero
\* when `other` is later.
delta_since(time, other) == IF time >= other THEN time - other ELSE 0

\* A request that is not being served.
ClaimIdle ==
  [pc |-> "idle", checked |-> FALSE, local_time |-> 0, balance |-> 0,
   outcome |-> "none"]

\* The context is a mutex: update_wallet runs under its lock.
context_locked == \E request \in FaucetRequests : f_claim[request].pc = "wallet"

\* What do_claim returned: whether a chain was opened, and what the
\* request had read if it went through the check of the window.
ClaimEvent(request, result, chain, claim) ==
  [result |-> result, request |-> request, checked |-> claim.checked,
   local_time |-> claim.local_time, balance |-> claim.balance,
   chain |-> chain]

\* FaucetService::new: the window starts now, with the balance of now.
FaucetInit ==
  /\ f_self \in [amount : FaucetAmounts, start_timestamp : Timestamps,
                 end_timestamp : Timestamps, start_balance : 0..FaucetMaxBalance]
  /\ f_clock = f_self.start_timestamp
  /\ f_balance = f_self.start_balance
  /\ f_claim = [request \in FaucetRequests |-> ClaimIdle]
  /\ f_opened = [chains |-> 0, claims |-> 0]
  /\ f_event = <<>>
  /\ CacheUnused
  /\ JournalUnused
  /\ SplitUnused
  /\ AdapterUnused
  /\ DynamoUnused
  /\ ProductUnused
  /\ BatchUnused

OutsideFaucet ==
  UNCHANGED <<cacheVars, journalVars, splitVars, adapterVars, dynamoVars,
              productVars, batchVars>>

\* The clock moves on.
Tick ==
  /\ f_clock < FaucetMaxTime
  /\ f_clock' = f_clock + 1
  /\ UNCHANGED <<f_self, f_balance, f_claim, f_opened, f_event>>
  /\ OutsideFaucet

\* do_claim begins: it takes the lock of the context for its chain client
\* and gives it back; inside the window it reads the clock and asks for
\* the balance; outside of it, it goes on to open the chain.
ClaimBegins(request) ==
  /\ f_claim[request].pc = "idle"
  /\ ~context_locked
  /\ f_claim' =
       [f_claim EXCEPT ![request] =
          IF /\ f_self.start_timestamp < f_self.end_timestamp
             /\ f_clock < f_self.end_timestamp
          THEN [pc |-> "balance", checked |-> TRUE, local_time |-> f_clock,
                balance |-> 0, outcome |-> "none"]
          ELSE [ClaimIdle EXCEPT !.pc = "opening"]]
  /\ UNCHANGED <<f_self, f_clock, f_balance, f_opened, f_event>>
  /\ OutsideFaucet

\* local_balance returns: an error, or the balance, which is checked
\* against the part of the start balance that is still locked.
ClaimReadsBalance(request, failed) ==
  /\ f_claim[request].pc = "balance"
  /\ LET claim == [f_claim[request] EXCEPT !.balance = f_balance]
         full_duration ==
           delta_since(f_self.end_timestamp, f_self.start_timestamp)
         remaining_duration ==
           delta_since(f_self.end_timestamp, claim.local_time)
         remaining_balance == claim.balance - f_self.amount
         result ==
           IF failed THEN "local_balance failed"
           ELSE IF claim.balance < f_self.amount THEN "The faucet is empty."
           ELSE IF limbs_gt(multiply(f_self.start_balance, remaining_duration),
                            multiply(remaining_balance, full_duration))
             THEN "Not enough unlocked balance; try again later."
           ELSE "Ok"
     IN IF result = "Ok"
        THEN /\ f_claim' = [f_claim EXCEPT ![request] =
                              [claim EXCEPT !.pc = "opening"]]
             /\ UNCHANGED f_event
        ELSE /\ f_claim' = [f_claim EXCEPT ![request] = ClaimIdle]
             /\ f_event' = ClaimEvent(request, result, FALSE,
                                      IF failed THEN f_claim[request] ELSE claim)
  /\ UNCHANGED <<f_self, f_clock, f_balance, f_opened>>
  /\ OutsideFaucet

\* open_chain returns: with a chain, which took the amount from the
\* balance, or without one.  do_claim keeps the outcome and goes on to
\* the lock of the context.
ClaimOpens(request, outcome) ==
  /\ f_claim[request].pc = "opening"
  /\ outcome = "Committed" => f_balance >= f_self.amount
  /\ f_balance' =
       IF outcome = "Committed" THEN f_balance - f_self.amount ELSE f_balance
  /\ f_opened' =
       IF outcome = "Committed"
       THEN [f_opened EXCEPT !.chains = f_opened.chains + 1]
       ELSE f_opened
  /\ f_claim' = [f_claim EXCEPT ![request] =
                   [f_claim[request] EXCEPT !.pc = "locking",
                                            !.outcome = outcome]]
  /\ UNCHANGED <<f_self, f_clock, f_event>>
  /\ OutsideFaucet

\* do_claim gets the lock of the context and calls update_wallet.
ClaimLocks(request) ==
  /\ f_claim[request].pc = "locking"
  /\ ~context_locked
  /\ f_claim' = [f_claim EXCEPT ![request] =
                   [f_claim[request] EXCEPT !.pc = "wallet"]]
  /\ UNCHANGED <<f_self, f_clock, f_balance, f_opened, f_event>>
  /\ OutsideFaucet

\* update_wallet returns, the lock is given back and do_claim returns: the
\* error of update_wallet, or else what open_chain had returned.
ClaimReturns(request, saved) ==
  /\ f_claim[request].pc = "wallet"
  /\ LET outcome == f_claim[request].outcome
     IN /\ f_opened' =
             IF outcome = "Committed" /\ saved
             THEN [f_opened EXCEPT !.claims = f_opened.claims + 1]
             ELSE f_opened
        /\ f_event' =
             ClaimEvent(request,
                        IF ~saved THEN "update_wallet failed"
                        ELSE IF outcome = "Committed" THEN "Ok"
                        ELSE IF outcome = "WaitForTimeout" THEN "not the leader"
                        ELSE "open_chain failed",
                        outcome = "Committed", f_claim[request])
  /\ f_claim' = [f_claim EXCEPT ![request] = ClaimIdle]
  /\ UNCHANGED <<f_self, f_clock, f_balance>>
  /\ OutsideFaucet

FaucetNext ==
  \/ Tick
  \/ \E request \in FaucetRequests : ClaimBegins(request)
  \/ \E request \in FaucetRequests, failed \in BOOLEAN :
       ClaimReadsBalance(request, failed)
  \/ \E request \in FaucetRequests,
        outcome \in {"Committed", "WaitForTimeout", "Err"} :
       ClaimOpens(request, outcome)
  \/ \E request \in FaucetRequests : ClaimLocks(request)
  \/ \E request \in FaucetRequests, saved \in BOOLEAN :
       ClaimReturns(request, saved)

SpecFaucet == FaucetInit /\ [][FaucetNext]_faucetVars

\* What a claim that went through the check had to find to go on.
Unlocked(event) ==
  /\ event.balance >= f_self.amount
  /\ f_self.start_balance
       * delta_since(f_self.end_timestamp, event.local_time)
     <= (event.balance - f_self.amount)
          * delta_since(f_self.end_timestamp, f_self.start_timestamp)

\* The last claim was checked as the window requires: it opened a chain
\* only with enough unlocked balance, and was rejected with the error of
\* its case, and without a chain, otherwise.
ClaimWasChecked ==
  (f_event # <<>> /\ f_event.checked) =>
    /\ f_event.chain => Unlocked(f_event)
    /\ f_event.result = "The faucet is empty."
         <=> (f_event.result # "local_balance failed"
              /\ f_event.balance < f_self.amount)
    /\ f_event.result = "Not enough unlocked balance; try again later."
         <=> (f_event.result # "local_balance failed"
              /\ f_event.balance >= f_self.amount /\ ~Unlocked(f_event))
    /\ f_event.result \in {"The faucet is empty.",
                           "Not enough unlocked balance; try again later."}
         => ~f_event.chain

\* Inside the window, after claims that returned their chains, with no
\* other spending and no chain of a claim that has yet to return, the part
\* of the start balance that is left is at least the part of the window
\* that is left.
FractionIsKept ==
  (/\ f_self.start_timestamp < f_self.end_timestamp
   /\ f_clock < f_self.end_timestamp
   /\ f_opened.claims > 0
   /\ f_opened.chains = f_opened.claims) =>
    f_balance * delta_since(f_self.end_timestamp, f_self.start_timestamp)
      >= f_self.start_balance * delta_since(f_self.end_timestamp, f_clock)

\* C38: while the window is open a claim opens a chain only if the balance
\* covers the amount and start_balance * remaining_duration <=
\* (balance - amount) * full_duration, and is rejected with the error of its
\* case without a chain otherwise; so after any successful claims inside
\* the window the remaining fraction of the start balance is at least the
\* remaining fraction of the window.
C38_ClaimsKeepTheLockedFraction == ClaimWasChecked /\ FractionIsKept

\* Two requests passed the check on the same balance and both opened their
\* chain inside the window.
C38_Witness ==
  /\ f_opened = [chains |-> 2, claims |-> 2]
  /\ f_clock < f_self.end_timestamp
  /\ f_event # <<>> /\ f_event.checked /\ f_event.result = "Ok"
  /\ f_event.balance = f_balance + 2 * f_self.amount
  /\ ~FractionIsKept

----------------------------------------------------------------------------
(***************************************************************************)
(* The size of a serialized batch                                          *)
(* (src/linera-views/src/backends/dynamo_db.rs, the comment on             *)
(* VISIBLE_MAX_VALUE_SIZE and tests::test_serialization_len).              *)
(*                                                                         *)
(* The journal above the adapter stores a batch as one value.  A batch is  *)
(* two lists, the keys deleted and the (key, value) pairs inserted; a list *)
(* is written as its length in ULEB128 and then its elements, and a vector *)
(* of bytes is a list of bytes.                                            *)
(***************************************************************************)

\* The lengths of the keys and of the values of the batches: the ends of
\* each ULEB128 size, and the limits with their neighbours.
BatchKeyLens == {0, 1, 127, 128, MAX_KEY_SIZE - 1, MAX_KEY_SIZE, MAX_KEY_SIZE + 1}

BatchValueLens ==
  {0, 127, 128, 16383, 16384,
   VISIBLE_MAX_VALUE_SIZE - 1, VISIBLE_MAX_VALUE_SIZE,
   VISIBLE_MAX_VALUE_SIZE + 1, RAW_MAX_VALUE_SIZE}

\* The most deletions and the most insertions of a batch.
BatchEntries == 1

\* serialized_size of a vector of n bytes, as test_serialization_len
\* estimates it.
serialized_size(n) == get_uleb128_size(n) + n

RECURSIVE keys_size(_)
keys_size(lens) ==
  IF lens = <<>> THEN 0
  ELSE serialized_size(Head(lens)) + keys_size(Tail(lens))

RECURSIVE pairs_size(_)
pairs_size(pairs) ==
  IF pairs = <<>> THEN 0
  ELSE serialized_size(Head(pairs)[1]) + serialized_size(Head(pairs)[2])
         + pairs_size(Tail(pairs))

\* The serialized size of a batch: each list after its length.
batch_serialized_size(batch) ==
  get_uleb128_size(Len(batch.deletions)) + keys_size(batch.deletions)
    + get_uleb128_size(Len(batch.insertions)) + pairs_size(batch.insertions)

BatchInit ==
  /\ b_batch \in [deletions : SeqsUpTo(BatchKeyLens, BatchEntries),
                  insertions : SeqsUpTo(BatchKeyLens \X BatchValueLens,
                                        BatchEntries)]
  /\ b_size = -1
  /\ CacheUnused
  /\ JournalUnused
  /\ SplitUnused
  /\ AdapterUnused
  /\ DynamoUnused
  /\ FaucetUnused
  /\ ProductUnused

OutsideBatch ==
  UNCHANGED <<cacheVars, journalVars, splitVars, adapterVars, dynamoVars,
              faucetVars, productVars>>

\* The batch is serialized into one value.
Serialized ==
  /\ b_size = -1
  /\ b_size' = batch_serialized_size(b_batch)
  /\ UNCHANGED b_batch
  /\ OutsideBatch

BatchNext == Serialized

SpecBatch == BatchInit /\ [][BatchNext]_batchVars

\* A batch of one insertion within the declared limits, and nothing else.
SingleInsertion ==
  /\ b_batch.deletions = <<>>
  /\ Len(b_batch.insertions) = 1
  /\ b_batch.insertions[1][1] <= MAX_KEY_SIZE
  /\ b_batch.insertions[1][2] <= VISIBLE_MAX_VALUE_SIZE

\* C40: the declared visible maximum value size is 408569 = 409600 - 1024
\* - 3 - 2 - 1 - 1, and a serialized batch of a single insertion, with a key
\* of at most MAX_KEY_SIZE bytes and a value of at most that size, is at
\* most RAW_MAX_VALUE_SIZE = 409600 bytes.
C40_SingleInsertionFitsRawValue ==
  /\ VISIBLE_MAX_VALUE_SIZE = 408569
  /\ VISIBLE_MAX_VALUE_SIZE = 409600 - 1024 - 3 - 2 - 1 - 1
  /\ RAW_MAX_VALUE_SIZE = 409600
  /\ (b_size # -1 /\ SingleInsertion) => b_size <= RAW_MAX_VALUE_SIZE

\* The largest key with the largest value: the batch fills the raw value
\* to the last byte.
C40_Witness ==
  /\ SingleInsertion
  /\ b_batch.insertions[1] = <<MAX_KEY_SIZE, VISIBLE_MAX_VALUE_SIZE>>
  /\ b_size = RAW_MAX_VALUE_SIZE

====
